---- MODULE Spec2Model ----
(***************************************************************************)
(* Brand Bible service of the SODAX MCP server: the process-wide document  *)
(* cache (cachedData, cacheTimestamp), getBrandBible with its one          *)
(* suspension point (await fetchBrandBibleHtml), clearCache, and the       *)
(* accessors and the refresh tool handler that call them.                  *)
(*                                                                         *)
(* Time is Date.now() in milliseconds.  The clock is monotone; a fetch may *)
(* settle in the same millisecond it was issued, and it settles no later   *)
(* than the axios timeout after it was issued.                             *)
(*                                                                         *)
(* The second part is what is done with a fetched page: extractTextContent,*)
(* parseSections and its two regular expressions, getSection,              *)
(* getSubsection, searchBrandBible and calculateRelevance, and the         *)
(* not-found answers of the section and subsection tools.  Strings are     *)
(* sequences of UTF-16 code units.  SpecText parses a page and makes one   *)
(* accessor call on the snapshot.                                          *)
(*                                                                         *)
(* SpecLive is Spec with every issued fetch settling (weak fairness).      *)
(* SpecTools runs the tool handlers of tools/brandBible.ts, each from its  *)
(* call to its response, over every way the fetch and the parse can fail.  *)
(***************************************************************************)
EXTENDS Integers, Sequences, FiniteSets, TLC

\* ---------------------------------------------------------------- bounds
NCallers == 2
MaxFetches == 2
MaxAdvances == 2
\* number of elements of a page, and the length of its long paragraph
MaxElements == 2
FillerLength == 2001

\* ------------------------------------------------------ program constants
CACHE_TTL_MS == 5 * 60 * 1000
FETCH_TIMEOUT_MS == 30000

\* ------------------------------------------------------------ environment
Callers == 1..NCallers
Ops == {"getDocument", "getSection", "getSubsection", "search", "refresh"}
\* amounts by which Date.now() is observed to advance between two events
Steps == {FETCH_TIMEOUT_MS, CACHE_TTL_MS - FETCH_TIMEOUT_MS}

\* cachedData = null
NULL == [id |-> 0, fetchedAt |-> 0]

\* what axios.get can reject with: an AxiosError (with or without a response
\* status, with an error code) or any other thrown value
Failures ==
    { [axios |-> TRUE, status |-> 404, code |-> "ERR_BAD_REQUEST"],
      [axios |-> TRUE, status |-> 0, code |-> "ECONNABORTED"],
      [axios |-> TRUE, status |-> 500, code |-> "ERR_BAD_RESPONSE"],
      [axios |-> FALSE, status |-> 0, code |-> "NONE"] }

VARIABLES
    clock,           \* Date.now()
    advances,        \* number of clock advances so far (bounded)
    cachedData,      \* the cached snapshot, NULL when absent
    cacheTimestamp,  \* the cache's staleness timestamp
    calls,           \* per caller: the position and locals of its pending call
    fetchCount,      \* number of axios.get requests issued so far
    last,            \* history: the call that completed most recently
    invalidation,    \* history: a clearCache() no call has started after yet
    refreshed,       \* history: the latest refresh that has returned a snapshot
    html,            \* the fetched page: its elements in document order
    brandBible,      \* what parseBrandBible built from the page
    reply            \* the last accessor call on that snapshot and its answer

\* the variables of the cache, and those of parsing and lookup
cacheVars == <<clock, advances, cachedData, cacheTimestamp, calls, fetchCount,
               last, invalidation, refreshed>>
textVars == <<html, brandBible, reply>>
vars == <<clock, advances, cachedData, cacheTimestamp, calls, fetchCount, last,
          invalidation, refreshed, html, brandBible, reply>>

IdleCall ==
    [pc |-> "idle", op |-> "none", now |-> 0, fid |-> 0,
     seen |-> NULL, seenTs |-> 0, cleared |-> FALSE, alone |-> FALSE]

\* the record of a completed call: whether it was the refresh handler's
\* (forced) or an accessor's, how it ended ("hit": served from the cache,
\* "rebuilt": fetched, parsed and stored, "threw"), the `now` of the call, the cache as the call found it (seen, seenTs), the
\* cache just before the call completed (over, overTs), the snapshot returned
\* or the error raised, whether clearCache ran while the call was pending,
\* and whether it was the only call from its start to its end (alone)
NoCall ==
    [forced |-> FALSE, outcome |-> "none", now |-> 0,
     seen |-> NULL, seenTs |-> 0, over |-> NULL, overTs |-> 0,
     result |-> NULL, err |-> "none", cleared |-> FALSE, alone |-> FALSE]

\* pending: clearCache() has run and no accessor call has started since;
\* snap: the snapshot that clearCache() discarded
NoInvalidation == [pending |-> FALSE, snap |-> NULL]

\* id: the number of the fetch of the refresh that returned a snapshot, the
\* greatest so far; now: the Date.now() at which that refresh began
NoRefresh == [id |-> 0, now |-> 0]

\* no page parsed yet, no accessor called yet
NoData == [parsed |-> FALSE, rawContent |-> <<>>, sections |-> <<>>]
NoReply == [op |-> "none"]

\* the process starts at some time of day, far more than the TTL after the
\* epoch, with an empty cache
InitCache ==
    /\ clock = 2 * CACHE_TTL_MS
    /\ advances = 0
    /\ cachedData = NULL
    /\ cacheTimestamp = 0
    /\ calls = [p \in Callers |-> IdleCall]
    /\ fetchCount = 0
    /\ last = NoCall
    /\ invalidation = NoInvalidation
    /\ refreshed = NoRefresh

\* the cache on its own: no page is looked into
Init ==
    /\ InitCache
    /\ html = <<>>
    /\ brandBible = NoData
    /\ reply = NoReply

\* ------------------------------------------------------------ pure pieces

\* the cache test with the TTL taken for seconds
IsFresh_seconds(data, timestamp, now) ==
    data # NULL /\ (now - timestamp) < CACHE_TTL_MS \div 1000

\* the cache test with its comparison turned around
IsFresh_inverted(data, timestamp, now) ==
    data # NULL /\ (now - timestamp) > CACHE_TTL_MS

\* the cache test of getBrandBible
IsFresh(data, timestamp, now) ==
    data # NULL /\ (now - timestamp) < CACHE_TTL_MS

\* a rebuild that updates the cached snapshot object in place
parseBrandBible_inPlace(fid) ==
    IF cachedData # NULL THEN [cachedData EXCEPT !.fetchedAt = clock]
    ELSE [id |-> fid, fetchedAt |-> clock]

\* a snapshot stamped with the cache's timestamp instead of the current time
parseBrandBible_cacheStamp(fid) == [id |-> fid, fetchedAt |-> cacheTimestamp]

\* the snapshot parseBrandBible builds from the response of fetch number fid:
\* a new object, stamped new Date() when it is built
parseBrandBible(fid) == [id |-> fid, fetchedAt |-> clock]

\* a store that writes the time at which the snapshot expires
StoredTimestamp_expiry(p) == calls[p].now + CACHE_TTL_MS

\* a store that never moves the timestamp backwards
StoredTimestamp_keepNewest(p) ==
    IF cacheTimestamp > calls[p].now THEN cacheTimestamp ELSE calls[p].now

\* the timestamp taken when the snapshot is stored instead of at the call
StoredTimestamp_atStore(p) == clock

\* the value getBrandBible writes to cacheTimestamp when it stores a snapshot
StoredTimestamp(p) == calls[p].now

\* the tests of the catch in the other order: the timeout code first
FetchError_timeoutFirst(f) ==
    IF f.axios
    THEN IF f.code = "ECONNABORTED" THEN "Timeout"
         ELSE IF f.status = 404 THEN "NotFound"
         ELSE "TransportError"
    ELSE "Rethrown"

\* the error fetchBrandBibleHtml throws for a rejected axios.get
FetchError(f) ==
    IF f.axios
    THEN IF f.status = 404 THEN "NotFound"
         ELSE IF f.code = "ECONNABORTED" THEN "Timeout"
         ELSE "TransportError"
    ELSE "Rethrown"

\* number of milliseconds the fetch of caller p has been pending
Elapsed(p) == clock - calls[p].now

\* the pending call of caller p has been the only call since it started: no
\* call was pending when it started and no fetch has been issued since (the
\* cache is empty or stale while p is pending unless another call stores,
\* so every call that starts meanwhile issues a fetch)
Alone(p) == calls[p].alone /\ fetchCount = calls[p].fid

\* the record of caller p's call as it completes
Completed(p, outcome, result, err) ==
    [forced |-> (calls[p].op = "refresh"), outcome |-> outcome, now |-> calls[p].now,
     seen |-> calls[p].seen, seenTs |-> calls[p].seenTs,
     over |-> cachedData, overTs |-> cacheTimestamp,
     result |-> result, err |-> err, cleared |-> calls[p].cleared,
     alone |-> Alone(p)]

\* a clearCache() that cancels the pending fetches and leaves their callers
\* suspended
Invalidated_cancelling(cs) ==
    [c \in Callers |->
        IF cs[c].pc = "await" THEN [cs[c] EXCEPT !.pc = "cancelled"] ELSE cs[c]]

\* clearCache() seen from the pending calls: they stay pending
Invalidated(cs) ==
    [c \in Callers |->
        IF cs[c].pc = "await" THEN [cs[c] EXCEPT !.cleared = TRUE] ELSE cs[c]]

\* the refresh history after the call of caller p has returned a snapshot
Refreshed(p) ==
    IF calls[p].op = "refresh" /\ calls[p].fid > refreshed.id
    THEN [id |-> calls[p].fid, now |-> calls[p].now]
    ELSE refreshed

\* ---------------------------------------------------------------- actions

\* Date.now() advances.  A pending axios.get settles within its timeout.
Advance(d) ==
    /\ advances < MaxAdvances
    /\ \A p \in Callers :
          calls[p].pc = "await" => Elapsed(p) + d <= FETCH_TIMEOUT_MS
    /\ clock' = clock + d
    /\ advances' = advances + 1
    /\ UNCHANGED <<cachedData, cacheTimestamp, calls, fetchCount, last, invalidation>>
    /\ UNCHANGED refreshed
    /\ UNCHANGED textVars

\* a clearCache() that forgets the timestamp
clearCache_dataOnly ==
    /\ cachedData' = NULL
    /\ calls' = Invalidated(calls)
    /\ invalidation' = [pending |-> TRUE, snap |-> cachedData]
    /\ UNCHANGED <<clock, advances, cacheTimestamp, fetchCount, last>>
    /\ UNCHANGED refreshed
    /\ UNCHANGED textVars

\* a clearCache() that leaves the cache as it is
clearCache_noop ==
    /\ calls' = Invalidated(calls)
    /\ invalidation' = [pending |-> TRUE, snap |-> cachedData]
    /\ UNCHANGED <<clock, advances, cachedData, cacheTimestamp, fetchCount, last>>
    /\ UNCHANGED refreshed
    /\ UNCHANGED textVars

\* clearCache(), called on its own
clearCache ==
    /\ cachedData' = NULL
    /\ cacheTimestamp' = 0
    /\ calls' = Invalidated(calls)
    /\ invalidation' = [pending |-> TRUE, snap |-> cachedData]
    /\ UNCHANGED <<clock, advances, fetchCount, last>>
    /\ UNCHANGED refreshed
    /\ UNCHANGED textVars

\* Caller p invokes an accessor (getBrandBible, getSection, getSubsection,
\* searchBrandBible) or the refresh tool handler (clearCache() followed by
\* getBrandBible()).  Everything up to the await runs in one step: the cache
\* test, and on a miss the axios.get request.  On a hit the accessor reads
\* the snapshot and returns.  Callers are interchangeable: a new call takes
\* the lowest free slot.
Call(p, op) ==
    /\ calls[p].pc = "idle"
    /\ \A c \in Callers : c < p => calls[c].pc = "await"
    /\ LET data == IF op = "refresh" THEN NULL ELSE cachedData
           timestamp == IF op = "refresh" THEN 0 ELSE cacheTimestamp
           others == IF op = "refresh" THEN Invalidated(calls) ELSE calls
           now == clock
       IN  /\ cachedData' = data
           /\ cacheTimestamp' = timestamp
           /\ IF IsFresh(data, timestamp, now)
              THEN /\ calls' = others
                   /\ last' = [NoCall EXCEPT !.forced = (op = "refresh"),
                                  !.outcome = "hit", !.now = now,
                                  !.seen = cachedData, !.seenTs = cacheTimestamp,
                                  !.over = cachedData, !.overTs = cacheTimestamp,
                                  !.result = data]
                   /\ UNCHANGED fetchCount
              ELSE /\ fetchCount < MaxFetches
                   /\ fetchCount' = fetchCount + 1
                   /\ calls' = [others EXCEPT ![p] =
                                  [pc |-> "await", op |-> op, now |-> now,
                                   fid |-> fetchCount + 1,
                                   seen |-> cachedData, seenTs |-> cacheTimestamp,
                                   cleared |-> FALSE,
                                   alone |-> \A c \in Callers \ {p} :
                                                calls[c].pc = "idle"]]
                   /\ UNCHANGED last
    /\ invalidation' = NoInvalidation
    /\ UNCHANGED <<clock, advances>>
    /\ UNCHANGED refreshed
    /\ UNCHANGED textVars

\* a rebuild that does not store over the snapshot of a later fetch
FetchResolve_keepNewer(p) ==
    /\ calls[p].pc = "await"
    /\ LET snapshot == parseBrandBible(calls[p].fid)
           newer == cachedData # NULL /\ cachedData.id > calls[p].fid
       IN  /\ cachedData' = IF newer THEN cachedData ELSE snapshot
           /\ cacheTimestamp' = IF newer THEN cacheTimestamp
                                 ELSE StoredTimestamp(p)
           /\ last' = Completed(p, "rebuilt", snapshot, "none")
    /\ calls' = [calls EXCEPT ![p] = IdleCall]
    /\ UNCHANGED <<clock, advances, fetchCount, invalidation>>
    /\ refreshed' = Refreshed(p)
    /\ UNCHANGED textVars

\* a rebuild that gives up its store when clearCache() ran while it waited
FetchResolve_abandoned(p) ==
    /\ calls[p].pc = "await"
    /\ LET snapshot == parseBrandBible(calls[p].fid)
       IN  /\ cachedData' = IF calls[p].cleared THEN cachedData ELSE snapshot
           /\ cacheTimestamp' = IF calls[p].cleared THEN cacheTimestamp
                                 ELSE StoredTimestamp(p)
           /\ last' = Completed(p, "rebuilt", snapshot, "none")
    /\ calls' = [calls EXCEPT ![p] = IdleCall]
    /\ UNCHANGED <<clock, advances, fetchCount, invalidation>>
    /\ refreshed' = Refreshed(p)
    /\ UNCHANGED textVars

\* The axios.get of caller p resolves and parseBrandBible returns: the new
\* snapshot and the timestamp are stored and the snapshot is returned.
FetchResolve(p) ==
    /\ calls[p].pc = "await"
    /\ LET snapshot == parseBrandBible(calls[p].fid)
       IN  /\ cachedData' = snapshot
           /\ cacheTimestamp' = StoredTimestamp(p)
           /\ last' = Completed(p, "rebuilt", snapshot, "none")
    /\ calls' = [calls EXCEPT ![p] = IdleCall]
    /\ UNCHANGED <<clock, advances, fetchCount, invalidation>>
    /\ refreshed' = Refreshed(p)
    /\ UNCHANGED textVars

\* a failed refresh that puts back the snapshot it had found
FetchReject_restoring(p, f) ==
    /\ calls[p].pc = "await"
    /\ f.code = "ECONNABORTED" => Elapsed(p) >= FETCH_TIMEOUT_MS
    /\ last' = Completed(p, "threw", NULL, FetchError(f))
    /\ calls' = [calls EXCEPT ![p] = IdleCall]
    /\ cachedData' = IF calls[p].op = "refresh" THEN calls[p].seen
                     ELSE cachedData
    /\ cacheTimestamp' = IF calls[p].op = "refresh" THEN calls[p].seenTs
                         ELSE cacheTimestamp
    /\ UNCHANGED <<clock, advances, fetchCount, invalidation>>
    /\ UNCHANGED refreshed
    /\ UNCHANGED textVars

\* a failed fetch that is tried again
FetchReject_retry(p, f) ==
    /\ calls[p].pc = "await"
    /\ f.code = "ECONNABORTED" => Elapsed(p) >= FETCH_TIMEOUT_MS
    /\ fetchCount < MaxFetches
    /\ fetchCount' = fetchCount + 1
    /\ calls' = [calls EXCEPT ![p].fid = fetchCount + 1, ![p].now = clock]
    /\ UNCHANGED <<clock, advances, cachedData, cacheTimestamp, last, invalidation>>
    /\ UNCHANGED refreshed
    /\ UNCHANGED textVars

\* a failed fetch that also drops the cache
FetchReject_clearing(p, f) ==
    /\ calls[p].pc = "await"
    /\ f.code = "ECONNABORTED" => Elapsed(p) >= FETCH_TIMEOUT_MS
    /\ last' = Completed(p, "threw", NULL, FetchError(f))
    /\ calls' = [calls EXCEPT ![p] = IdleCall]
    /\ cachedData' = NULL
    /\ cacheTimestamp' = 0
    /\ UNCHANGED <<clock, advances, fetchCount, invalidation>>
    /\ UNCHANGED refreshed
    /\ UNCHANGED textVars

\* The axios.get of caller p rejects with f: fetchBrandBibleHtml throws, and
\* getBrandBible and the accessor propagate it.
FetchReject(p, f) ==
    /\ calls[p].pc = "await"
    /\ f.code = "ECONNABORTED" => Elapsed(p) >= FETCH_TIMEOUT_MS
    /\ last' = Completed(p, "threw", NULL, FetchError(f))
    /\ calls' = [calls EXCEPT ![p] = IdleCall]
    /\ UNCHANGED <<clock, advances, cachedData, cacheTimestamp, fetchCount, invalidation>>
    /\ UNCHANGED refreshed
    /\ UNCHANGED textVars

\* The axios.get of caller p resolves but parseBrandBible throws: nothing has
\* been assigned yet.
ParseThrow(p) ==
    /\ calls[p].pc = "await"
    /\ last' = Completed(p, "threw", NULL, "ParseError")
    /\ calls' = [calls EXCEPT ![p] = IdleCall]
    /\ UNCHANGED <<clock, advances, cachedData, cacheTimestamp, fetchCount, invalidation>>
    /\ UNCHANGED refreshed
    /\ UNCHANGED textVars

Next ==
    \/ \E d \in Steps : Advance(d)
    \/ clearCache
    \/ \E p \in Callers, op \in Ops : Call(p, op)
    \/ \E p \in Callers : FetchResolve(p)
    \/ \E p \in Callers, f \in Failures : FetchReject(p, f)
    \/ \E p \in Callers : ParseThrow(p)

Spec == Init /\ [][Next]_vars

\* ------------------------------------------------------------- properties

\* the operations other than refresh
Accessors == Ops \ {"refresh"}

\* the cache holds a snapshot that is less than the TTL old by cacheTimestamp
CacheValid == cachedData # NULL /\ (clock - cacheTimestamp) < CACHE_TTL_MS

\* in this step caller q's call is served the cached snapshot, with no fetch
Served(q) ==
    /\ calls'[q].pc = "idle"
    /\ fetchCount' = fetchCount
    /\ last'.outcome = "hit" /\ last'.now = clock
    /\ last'.result = cachedData

\* in this step caller q's call issues one fetch and suspends on it
Fetches(q) ==
    /\ calls'[q].pc = "await"
    /\ fetchCount' = fetchCount + 1
    /\ calls'[q].fid = fetchCount'

\* in this step the pending call of caller p fails
Fails(p) ==
    /\ calls[p].pc = "await"
    /\ calls'[p].pc = "idle"
    /\ last'.outcome = "threw"

\* in this step caller q starts an accessor call that suspends on a fetch
Suspends(q) ==
    /\ calls[q].pc = "idle"
    /\ calls'[q].pc = "await"
    /\ calls'[q].op \in Accessors

\* in this step some accessor call is served from the cache
ServedStep == last' # last /\ last'.outcome = "hit"

\* C1, second call: a getDocument() that starts while the snapshot the
\* previous call returned is still cached and less than the TTL has passed
\* is served that very snapshot (same object, same fetchedAt), with no fetch
C1_SecondCall ==
    \A q \in Callers :
        ( /\ Call(q, "getDocument")
          /\ last.outcome \in {"hit", "rebuilt"}
          /\ last.result = cachedData
          /\ CacheValid )
        => ( /\ Served(q)
             /\ last'.result = last.result
             /\ last'.result.fetchedAt = last.result.fetchedAt
             /\ UNCHANGED <<cachedData, cacheTimestamp>> )

\* C1, call after the TTL: a getDocument() that starts when the TTL of the
\* cached snapshot has elapsed issues a fetch
C1_AfterTTLFetches ==
    \A q \in Callers :
        ( /\ Call(q, "getDocument")
          /\ cachedData # NULL
          /\ (clock - cacheTimestamp) >= CACHE_TTL_MS )
        => Fetches(q)

\* C1, call after the TTL: the snapshot it returns has a newer fetchedAt
\* than the snapshot it found (getDocument and every accessor built on it)
C1_AfterTTLNewer ==
    ( /\ last.outcome = "rebuilt"
      /\ ~last.forced
      /\ last.seen # NULL )
    => last.result.fetchedAt > last.seen.fetchedAt

\* C1: two getDocument() calls within the TTL window, with no refresh in
\* between, return the identical cached snapshot and the second issues no
\* fetch; a call after the TTL has elapsed fetches and returns a snapshot
\* with a newer fetchedAt.
C1_WithinTTLSameSnapshot ==
    /\ [][C1_SecondCall /\ C1_AfterTTLFetches]_vars
    /\ []C1_AfterTTLNewer

\* a call of getBrandBible was served, later than the snapshot was built,
\* the snapshot that the call which built it returned
C1_Witness ==
    /\ last.outcome = "hit"
    /\ ~last.forced
    /\ last.result = cachedData
    /\ last.now > last.result.fetchedAt

\* a call of getBrandBible that found a snapshot older than the TTL has
\* rebuilt
C1_WitnessAfterTTL ==
    /\ last.outcome = "rebuilt"
    /\ ~last.forced
    /\ last.seen # NULL
    /\ last.now - last.seen.fetchedAt >= CACHE_TTL_MS
    /\ last.result.fetchedAt > last.seen.fetchedAt

\* C2 as stated: get() serves the stored snapshot if and only if
\* (now - fetchedAt) < TTL, and the timestamp stored with a snapshot is the
\* time at the moment the snapshot is stored.
C2_Original ==
    /\ [][\A q \in Callers, op \in Accessors :
            Call(q, op) =>
               (Served(q) <=>
                   ( cachedData # NULL
                     /\ (clock - cachedData.fetchedAt) < CACHE_TTL_MS ))]_vars
    /\ [](cachedData # NULL => cacheTimestamp = cachedData.fetchedAt)

\* C2 amended, first part: get() serves the stored snapshot if and only if
\* one is stored and (now - cacheTimestamp) < TTL, and fetches otherwise
C2_ServedIffValid ==
    \A q \in Callers, op \in Accessors :
        Call(q, op) =>
            /\ Served(q) <=> CacheValid
            /\ Fetches(q) <=> ~CacheValid

\* C2 amended, second part: the timestamp stored with a new snapshot is the
\* `now` taken at the start of the call that rebuilt it
C2_StoresCallStart ==
    \A p \in Callers :
        FetchResolve(p) =>
            /\ cacheTimestamp' = calls[p].now
            /\ cachedData'.fetchedAt = clock
            /\ cachedData'.id = calls[p].fid

\* C2 amended: staleness is measured against cacheTimestamp, which is the
\* time at the start of the call that rebuilt the snapshot and is therefore
\* at most the snapshot's fetchedAt.
C2_StalenessFromCallStart ==
    /\ [][C2_ServedIffValid /\ C2_StoresCallStart]_vars
    /\ [](cachedData # NULL => cacheTimestamp <= cachedData.fetchedAt)

\* an accessor has rebuilt although the snapshot it found was less than the
\* TTL old by its fetchedAt
C2_Witness ==
    /\ last.outcome = "rebuilt"
    /\ ~last.forced
    /\ last.seen # NULL
    /\ last.seenTs < last.seen.fetchedAt
    /\ (last.now - last.seen.fetchedAt) < CACHE_TTL_MS
    /\ (last.now - last.seenTs) >= CACHE_TTL_MS

\* C3, the failing step: the error is raised to the caller and the cached
\* snapshot and the timestamp are left as they were
C3_FailureLeavesCache ==
    \A p \in Callers :
        Fails(p) =>
            /\ UNCHANGED <<cachedData, cacheTimestamp>>
            /\ last'.err # "none"
            /\ last'.forced = (calls[p].op = "refresh")
            /\ last'.now = calls[p].now
            /\ last'.result = NULL

\* C3, the start of the call: an accessor other than refresh writes nothing
\* to the cache before it suspends
C3_StartLeavesCache ==
    (ServedStep \/ \E q \in Callers : Suspends(q)) =>
        UNCHANGED <<cachedData, cacheTimestamp>>

\* C3, the next call: after a failure, getDocument() is served the snapshot
\* that was left in place while it is within its TTL and fetches otherwise
C3_NextCall ==
    \A q \in Callers :
        (last.outcome = "threw" /\ Call(q, "getDocument")) =>
            IF CacheValid
            THEN Served(q) /\ last'.result.fetchedAt = cachedData.fetchedAt
            ELSE Fetches(q)

\* C3: a failed rebuild raises to the caller and leaves the cached snapshot
\* and timestamp exactly as they were; a later getDocument() within the TTL
\* is served that snapshot, one after the TTL fetches again.
C3_FailedRebuildKeepsCache ==
    [][C3_FailureLeavesCache /\ C3_StartLeavesCache /\ C3_NextCall]_vars

\* a call of getBrandBible that found a stale snapshot has failed, and the
\* snapshot and timestamp it found are still the cached ones
C3_Witness ==
    /\ last.outcome = "threw"
    /\ ~last.forced
    /\ last.seen # NULL
    /\ cachedData = last.seen
    /\ cacheTimestamp = last.seenTs

\* C4, no de-duplication: an accessor that starts while the cache is stale
\* or empty issues a fetch of its own, however many fetches are pending
C4_EachIssuesOwnFetch ==
    \A q \in Callers, op \in Accessors :
        (Call(q, op) /\ ~CacheValid) =>
            /\ Fetches(q)
            /\ \A p \in Callers \ {q} :
                  calls[p].pc = "await" =>
                     calls'[p] = calls[p] /\ calls'[p].fid # calls'[q].fid

\* C4, last write wins: a rebuild that completes stores its snapshot and its
\* timestamp over whatever the cache holds
C4_StoreOverwrites ==
    \A p \in Callers :
        FetchResolve(p) =>
            /\ cachedData' = last'.result
            /\ cachedData'.id = calls[p].fid
            /\ cacheTimestamp' = calls[p].now

\* C4, last write wins: while the last completed call is a rebuild and the
\* cache has not been cleared, the cache holds that rebuild's snapshot and
\* timestamp
C4_CacheIsLastRebuild ==
    (last.outcome = "rebuilt" /\ cachedData # NULL) =>
        (cachedData = last.result /\ cacheTimestamp = last.now)

\* C4: overlapping calls that find the cache stale or empty each issue their
\* own fetch, and the cache ends up with the snapshot and timestamp of the
\* rebuild that completed last.
C4_NoDedupLastWriteWins ==
    /\ [][C4_EachIssuesOwnFetch /\ C4_StoreOverwrites]_vars
    /\ []C4_CacheIsLastRebuild

\* two overlapping rebuilds have completed in the reverse order of their
\* starts, and the cache holds what the later one to complete wrote
C4_Witness ==
    /\ fetchCount >= 2
    /\ \A p \in Callers : calls[p].pc = "idle"
    /\ last.outcome = "rebuilt"
    /\ last.over # NULL
    /\ last.overTs > last.now
    /\ last.over.id > last.result.id
    /\ cachedData = last.result
    /\ cacheTimestamp = last.now

\* C5, every cache write: a step that changes the snapshot or the timestamp
\* either clears both or stores the snapshot and the timestamp of one rebuild
C5_WritesBoth ==
    (cachedData' # cachedData \/ cacheTimestamp' # cacheTimestamp) =>
        \/ cachedData' = NULL /\ cacheTimestamp' = 0
        \/ \E p \in Callers :
              /\ calls[p].pc = "await"
              /\ cachedData' = [id |-> calls[p].fid, fetchedAt |-> clock]
              /\ cacheTimestamp' = calls[p].now

\* C5: the cache is never partially updated: snapshot and timestamp are
\* written together by the same rebuild, and the snapshot is absent exactly
\* when the timestamp is 0.
C5_NeverPartiallyUpdated ==
    /\ [][C5_WritesBoth]_vars
    /\ []((cachedData = NULL) <=> (cacheTimestamp = 0))

\* a rebuild during which the cache was cleared has stored its snapshot and
\* timestamp, while another call is still pending
C5_Witness ==
    /\ cachedData # NULL
    /\ cacheTimestamp > 0
    /\ last.outcome = "rebuilt"
    /\ last.cleared
    /\ \E p \in Callers : calls[p].pc = "await"

\* C6 as stated: the snapshot refresh() produces has a fetchedAt strictly
\* greater than that of the snapshot it replaces.
C6_Original ==
    (last.outcome = "rebuilt" /\ last.forced /\ last.seen # NULL) =>
        last.result.fetchedAt > last.seen.fetchedAt

\* C6 amended: the snapshot refresh() produces is a new snapshot whose
\* fetchedAt is greater than or equal to that of the snapshot it found and
\* of the snapshot it overwrote, and strictly greater when the clock has
\* advanced since refresh() began.
C6_RefreshNotOlder ==
    (last.outcome = "rebuilt" /\ last.forced) =>
        /\ last.seen # NULL =>
              /\ last.result.id # last.seen.id
              /\ last.seen.fetchedAt <= last.now
        /\ last.over # NULL =>
              /\ last.result.id # last.over.id
              /\ last.over.fetchedAt <= last.result.fetchedAt
        /\ last.now <= last.result.fetchedAt

\* a refresh() has replaced a snapshot by one with a later fetchedAt
C6_Witness ==
    /\ last.outcome = "rebuilt"
    /\ last.forced
    /\ last.seen # NULL
    /\ last.result.fetchedAt > last.seen.fetchedAt
    /\ cachedData = last.result

C7_FirstCallAfterClear ==
    \A q \in Callers, op \in Accessors :
        (invalidation.pending /\ Call(q, op)) =>
            IF CacheValid
            THEN /\ Served(q)
                 /\ last'.result.id # invalidation.snap.id
            ELSE Fetches(q)

\* C7 amended, the cache after clearCache(): it is empty until a rebuild
\* that was pending during clearCache() stores, and never holds the
\* invalidated snapshot
C7_ClearedUntilStored ==
    invalidation.pending =>
        \/ cachedData = NULL /\ cacheTimestamp = 0
        \/ /\ cachedData.id # invalidation.snap.id
           /\ cachedData.fetchedAt >= invalidation.snap.fetchedAt

C7_Witness ==
    /\ invalidation.pending
    /\ invalidation.snap # NULL
    /\ cachedData = NULL
    /\ \A p \in Callers : calls[p].pc = "idle"

C8_ClearKeepsPending ==
    \A p \in Callers :
        ( /\ calls[p].pc = "await"
          /\ \/ clearCache
             \/ \E q \in Callers \ {p} : Call(q, "refresh") )
        => ( /\ calls'[p].pc = "await"
             /\ calls'[p].fid = calls[p].fid
             /\ calls'[p].now = calls[p].now
             /\ calls'[p].cleared )

\* C8, the fetch resolves after clearCache(): its snapshot is stored with
\* the call's timestamp and returned
C8_StoresAfterClear ==
    \A p \in Callers :
        ( /\ calls[p].pc = "await"
          /\ calls[p].cleared
          /\ FetchResolve(p) )
        => ( /\ last'.result = [id |-> calls[p].fid, fetchedAt |-> clock]
             /\ cachedData' = last'.result
             /\ cacheTimestamp' = calls[p].now )

\* C8: a fetch that is pending when clearCache() is called is not
\* abandoned: it stays pending, and when it succeeds its snapshot is stored
\* in the cache after the invalidation.
C8_InFlightSurvivesInvalidate ==
    [][C8_ClearKeepsPending /\ C8_StoresAfterClear]_vars

\* a rebuild during which clearCache() ran on its own has completed and its
\* snapshot is the cached one
C8_Witness ==
    /\ last.outcome = "rebuilt"
    /\ last.cleared
    /\ ~last.forced
    /\ last.over = NULL
    /\ last.seen # NULL
    /\ cachedData = last.result
    /\ cacheTimestamp = last.now

\* C9, fetches: a step issues at most one fetch, and a fetch is issued only
\* by a call as it starts
C9_OneFetchPerStart ==
    /\ fetchCount' \in {fetchCount, fetchCount + 1}
    /\ fetchCount' = fetchCount + 1 =>
          \E q \in Callers :
             /\ calls[q].pc = "idle"
             /\ Fetches(q)
             /\ \A p \in Callers \ {q} : calls'[p].pc = calls[p].pc

\* C9, a pending call: it keeps its one fetch until it completes, and when
\* the fetch fails it raises at once
C9_NoSecondAttempt ==
    \A p \in Callers :
        calls[p].pc = "await" =>
            /\ calls'[p].pc = "await" => calls'[p].fid = calls[p].fid
            /\ Fails(p) =>
                  /\ fetchCount' = fetchCount
                  /\ last'.err # "none"
                  /\ last'.result = NULL

\* C9: no retries: every call issues at most one fetch, and when it fails
\* the call raises without a second attempt.
C9_NoRetries ==
    [][C9_OneFetchPerStart /\ C9_NoSecondAttempt]_vars

\* an accessor whose fetch timed out has raised, with one fetch issued in all
C9_Witness ==
    /\ last.outcome = "threw"
    /\ ~last.forced
    /\ last.err = "Timeout"
    /\ fetchCount = 1
    /\ \A p \in Callers : calls[p].pc = "idle"

\* C10, the accessors: with a snapshot within its TTL in the cache they
\* leave the snapshot and the timestamp as they are and issue no fetch
C10_AccessorsReadOnly ==
    \A q \in Callers, op \in Accessors :
        (Call(q, op) /\ CacheValid) =>
            /\ UNCHANGED <<cachedData, cacheTimestamp, fetchCount>>
            /\ Served(q)
            /\ ~last'.forced

\* C10, refresh: it issues a fetch whatever the cache holds
C10_RefreshFetches ==
    \A q \in Callers :
        Call(q, "refresh") =>
            /\ Fetches(q)
            /\ cachedData' = NULL /\ cacheTimestamp' = 0

\* C10: with a fresh snapshot in the cache getDocument, getSection,
\* getSubsection and search are read-only and issue no fetch; refresh is the
\* only operation that fetches regardless of freshness.
C10_ReadOnlyExceptRefresh ==
    [][C10_AccessorsReadOnly /\ C10_RefreshFetches]_vars

\* a refresh that found a snapshot within its TTL is fetching anyway
C10_Witness ==
    \E q \in Callers :
        /\ calls[q].pc = "await"
        /\ calls[q].op = "refresh"
        /\ calls[q].seen # NULL
        /\ (calls[q].now - calls[q].seenTs) < CACHE_TTL_MS
        /\ cachedData = NULL

\* an accessor was served from the cache
C10_WitnessServed ==
    /\ last.outcome = "hit"
    /\ ~last.forced
    /\ cachedData = last.result

\* C26, the cache: a stored snapshot was built no earlier than the start of
\* the call that stored it
C26_TimestampNotAfterFetchedAt ==
    cachedData # NULL => cacheTimestamp <= cachedData.fetchedAt

\* C26, a call served from the cache: the snapshot it returns was built less
\* than the TTL ago
C26_ServedWithinTTL ==
    \A q \in Callers :
        Served(q) =>
            /\ last'.result # NULL
            /\ (clock - last'.result.fetchedAt) < CACHE_TTL_MS
            /\ last'.result.fetchedAt <= clock

\* C26: whenever the cache holds a snapshot its timestamp is less than or
\* equal to the snapshot's fetchedAt, so no call is served from the cache a
\* snapshot whose fetchedAt is 5 minutes or more in the past.
C26_NeverServesOlderThanTTL ==
    /\ []C26_TimestampNotAfterFetchedAt
    /\ [][C26_ServedWithinTTL]_vars

\* a call was served a snapshot that was built some time after the call that
\* stored it had started, and some time before it was served
C26_Witness ==
    /\ last.outcome = "hit"
    /\ last.result # NULL
    /\ last.seenTs < last.result.fetchedAt
    /\ last.result.fetchedAt < last.now

\* C27 as stated: a store never writes a timestamp less than the one it
\* overwrites (the cache not having been cleared in between).
C27_Original ==
    [][\A p \in Callers :
          (FetchResolve(p) /\ cachedData # NULL) =>
              cacheTimestamp' >= cacheTimestamp]_vars

\* C27 amended, a store: it writes the start time of the storing call, which
\* is never less than the timestamp that call found, and is less than the
\* timestamp it overwrites only when the snapshot it overwrites came from a
\* fetch that was issued later
C27_StoreWritesOwnStart ==
    \A p \in Callers :
        FetchResolve(p) =>
            /\ cacheTimestamp' = calls[p].now
            /\ cacheTimestamp' >= calls[p].seenTs
            /\ cacheTimestamp' < cacheTimestamp =>
                  /\ cachedData # NULL
                  /\ cachedData.id > calls[p].fid
                  /\ cachedData # calls[p].seen

\* C27 amended: every store writes the start time of the call that stores;
\* the timestamp decreases when rebuilds overlap and the one that started
\* first completes last, and in no other case.
C27_TimestampOfLastStore ==
    [][C27_StoreWritesOwnStart]_vars

\* with no clearCache() in between, a rebuild has overwritten the timestamp
\* of a rebuild that started later by its own, earlier one
C27_Witness ==
    /\ last.outcome = "rebuilt"
    /\ ~last.cleared
    /\ last.over # NULL
    /\ last.overTs > last.now
    /\ cacheTimestamp = last.now
    /\ cacheTimestamp < last.overTs

\* the snapshot objects that are referenced somewhere: the cached one, those
\* the last completed call found, overwrote and returned, the one
\* clearCache() discarded, and those the pending calls found
Referenced ==
    ({cachedData, last.seen, last.over, last.result, invalidation.snap}
     \cup {calls[p].seen : p \in Callers}) \ {NULL}

\* C23, one object: wherever a snapshot object is referenced it has the
\* fields it was constructed with
C23_SameObjectSameFields ==
    \A a, b \in Referenced : a.id = b.id => a = b

\* C23, a step: a call served from the cache returns the cached object
\* itself; a step that puts a snapshot into the cache puts a new object
\* there, and every object referenced before the step is as it was after it
C23_RebuildInstallsNewObject ==
    /\ \A q \in Callers : Served(q) => last'.result = cachedData
    /\ (cachedData' # cachedData /\ cachedData' # NULL) =>
          /\ \A a \in Referenced : a.id # cachedData'.id
          /\ cachedData' = last'.result
    /\ \A a \in Referenced :
          \A b \in Referenced' : b.id = a.id => b = a

\* C23: a snapshot is never changed once constructed: accessors, refresh and
\* clearCache leave every snapshot object that was returned as it was, and a
\* rebuild or refresh installs a new object.
C23_SnapshotImmutable ==
    /\ []C23_SameObjectSameFields
    /\ [][C23_RebuildInstallsNewObject]_vars

\* a rebuild after the TTL has replaced the snapshot it found in the cache:
\* the caller holds both, the old one with its earlier fetchedAt
C23_Witness ==
    /\ last.outcome = "rebuilt"
    /\ ~last.forced
    /\ last.seen # NULL
    /\ last.over = last.seen
    /\ cachedData = last.result
    /\ cachedData.id # last.seen.id
    /\ last.seen.fetchedAt < cachedData.fetchedAt

\* C28 as stated: once a refresh has returned a snapshot, a call served from
\* the cache returns a snapshot of a fetch issued no earlier than the fetch
\* of that refresh, and no older fetch's snapshot is put into the cache.
C28_Original ==
    [][refreshed.id > 0 =>
          /\ \A q \in Callers : Served(q) => last'.result.id >= refreshed.id
          /\ (cachedData' # NULL /\ cachedData' # cachedData) =>
                cachedData'.id >= refreshed.id]_vars

\* C28 amended, a store: a rebuild whose fetch was issued before that of a
\* refresh that has returned was pending when the refresh cleared the cache,
\* it is not cancelled, and it stores its snapshot and timestamp over the
\* refreshed ones; it began no more than the fetch timeout before the refresh
C28_OlderRebuildStores ==
    \A p \in Callers :
        (FetchResolve(p) /\ calls[p].fid < refreshed.id) =>
            /\ calls[p].cleared
            /\ cachedData'.id = calls[p].fid
            /\ cacheTimestamp' = calls[p].now
            /\ calls[p].now >= refreshed.now - FETCH_TIMEOUT_MS
            /\ calls[p].now <= refreshed.now

\* C28 amended, the cache after a refresh has returned: what it holds, and so
\* what is served from it, comes from a call that began no more than the
\* fetch timeout before the refresh did
C28_CacheNotMuchOlder ==
    (refreshed.id > 0 /\ cachedData # NULL) =>
        cacheTimestamp >= refreshed.now - FETCH_TIMEOUT_MS

\* C28 amended: after a refresh has returned, a snapshot served from the
\* cache comes from a fetch issued at or after the start of the refresh, or
\* from a rebuild that was already pending when the refresh began and
\* completed after it: such a rebuild overwrites the refreshed snapshot.
C28_ServedAfterRefresh ==
    /\ [][C28_OlderRebuildStores]_vars
    /\ []C28_CacheNotMuchOlder

\* after a refresh returned, a call was served the snapshot of a fetch that
\* had been issued before the fetch of the refresh
C28_Witness ==
    /\ refreshed.id > 0
    /\ last.outcome = "hit"
    /\ last.result # NULL
    /\ last.result.id < refreshed.id
    /\ cachedData = last.result

\* C29, the failing step: a refresh that was the only call from its start
\* fails: the cache is empty, whatever the refresh had found in it, and no
\* call at any later time can be served from it as it is
C29_FailedRefreshLeavesEmpty ==
    \A p \in Callers :
        (Fails(p) /\ calls[p].op = "refresh" /\ Alone(p)) =>
            /\ cachedData' = NULL /\ cacheTimestamp' = 0
            /\ \A d \in {0} \cup Steps :
                  ~IsFresh(cachedData', cacheTimestamp', clock + d)
            /\ last'.forced /\ last'.alone /\ last'.seen = calls[p].seen

\* C29, the next call: the getDocument() that follows the failed refresh
\* issues a fetch of its own
C29_NextCallFetches ==
    \A q \in Callers :
        ( /\ last.forced /\ last.outcome = "threw" /\ last.alone
          /\ \A p \in Callers : calls[p].pc = "idle"
          /\ Call(q, "getDocument") )
        => ( /\ Fetches(q)
             /\ calls'[q].fid > last.seen.id
             /\ calls'[q].seen = NULL )

Settle(p) ==
    \/ FetchResolve(p)
    \/ \E f \in Failures : FetchReject(p, f)
    \/ ParseThrow(p)

\* Every axios.get settles: the request has a timeout of FETCH_TIMEOUT_MS,
\* after which it rejects if it has not resolved.
SpecLive == Init /\ [][Next]_vars /\ \A p \in Callers : WF_vars(Settle(p))

\* C24, no call waits on another: whatever the other callers are doing and
\* whatever clearCache() has done, the fetch of a pending call can resolve
C24_NoCallWaits ==
    \A p \in Callers : calls[p].pc = "await" => ENABLED FetchResolve(p)

\* C24: every call of an accessor or of refresh completes: a call that is
\* served from the cache returns in the step it starts in, and a call that
\* suspends on its fetch eventually returns a snapshot or raises, in every
\* interleaving with other calls and with clearCache().
C24_EveryCallCompletes ==
    /\ \A p \in Callers : (calls[p].pc # "idle") ~> (calls[p].pc = "idle")
    /\ []C24_NoCallWaits

\* a call whose fetch timed out has raised while clearCache() had run and
\* another call is still waiting for its own fetch
C24_Witness ==
    /\ last.outcome = "threw"
    /\ last.err = "Timeout"
    /\ last.cleared
    /\ \E p \in Callers : calls[p].pc = "await" /\ calls[p].cleared

\* ======================================================================
\* The tool handlers of the Brand Bible and the errors they report
\* ======================================================================
\* SpecTools runs the six tool handlers one after the other, each from its
\* call to its response: the interleavings of their awaits are those of Spec.

Tools ==
    {"sodax_get_brand_overview", "sodax_get_section", "sodax_get_subsection",
     "sodax_search_brand_bible", "sodax_refresh_brand_bible",
     "sodax_list_subsections"}

\* what axios.get can reject with, with the message of the value and what
\* String() makes of it: an AxiosError (response.status and code are set
\* independently of each other), a TypeError, a thrown plain object
Rejections ==
    { [axios |-> TRUE, isError |-> TRUE, status |-> 404, code |-> "ERR_BAD_REQUEST",
       message |-> "Request failed with status code 404",
       str |-> "AxiosError: Request failed with status code 404"],
      [axios |-> TRUE, isError |-> TRUE, status |-> 0, code |-> "ECONNABORTED",
       message |-> "timeout of 30000ms exceeded",
       str |-> "AxiosError: timeout of 30000ms exceeded"],
      [axios |-> TRUE, isError |-> TRUE, status |-> 404, code |-> "ECONNABORTED",
       message |-> "Request failed with status code 404",
       str |-> "AxiosError: Request failed with status code 404"],
      [axios |-> TRUE, isError |-> TRUE, status |-> 500, code |-> "ERR_BAD_RESPONSE",
       message |-> "Request failed with status code 500",
       str |-> "AxiosError: Request failed with status code 500"],
      [axios |-> TRUE, isError |-> TRUE, status |-> 0, code |-> "ERR_NETWORK",
       message |-> "Network Error",
       str |-> "AxiosError: Network Error"],
      [axios |-> FALSE, isError |-> TRUE, status |-> 0, code |-> "NONE",
       message |-> "Invalid URL",
       str |-> "TypeError: Invalid URL"],
      [axios |-> FALSE, isError |-> FALSE, status |-> 0, code |-> "NONE",
       message |-> "canceled",
       str |-> "[object Object]"] }

NoRejection ==
    [axios |-> FALSE, isError |-> FALSE, status |-> 0, code |-> "NONE",
     message |-> "", str |-> ""]

\* nothing was thrown
NoError == [kind |-> "none", isError |-> FALSE, message |-> "", str |-> ""]

\* what parseBrandBible (cheerio, extractTextContent, parseSections) can
\* throw: an Error, or a value that is not an Error
ParseErrors ==
    { [kind |-> "ParseError", isError |-> TRUE,
       message |-> "Cannot read properties of undefined",
       str |-> "TypeError: Cannot read properties of undefined"],
      [kind |-> "ParseError", isError |-> FALSE,
       message |-> "", str |-> "undefined"] }

\* the message of the Error that fetchBrandBibleHtml throws
FetchErrorMessage(f) ==
    CASE FetchError(f) = "NotFound" ->
            "Brand Bible page not found. The URL may have changed."
      [] FetchError(f) = "Timeout" ->
            "Request timed out while fetching Brand Bible. Please try again."
      [] FetchError(f) = "TransportError" ->
            "Failed to fetch Brand Bible: " \o f.message
      [] OTHER -> f.message

\* what fetchBrandBibleHtml throws when axios.get rejects with f: a new Error
\* for an AxiosError, the rejected value itself otherwise
fetchBrandBibleHtml(f) ==
    IF f.axios
    THEN [kind |-> FetchError(f), isError |-> TRUE,
          message |-> FetchErrorMessage(f),
          str |-> "Error: " \o FetchErrorMessage(f)]
    ELSE [kind |-> FetchError(f), isError |-> f.isError,
          message |-> f.message, str |-> f.str]

\* the first words of the text a handler's catch returns
ErrorPrefix(tool) ==
    CASE tool = "sodax_get_brand_overview" -> "Error fetching brand bible overview"
      [] tool = "sodax_get_section" -> "Error fetching section"
      [] tool = "sodax_get_subsection" -> "Error fetching subsection"
      [] tool = "sodax_search_brand_bible" -> "Error searching brand bible"
      [] tool = "sodax_refresh_brand_bible" -> "Error refreshing cache"
      [] tool = "sodax_list_subsections" -> "Error listing subsections"

\* error instanceof Error ? error.message : String(error)
ErrorText(e) == IF e.isError THEN e.message ELSE e.str

\* a catch that throws the error on
Caught_rethrow(tool, e) == [threw |-> TRUE, text |-> ""]

\* the catch of a handler: it returns a response with the error's text
Caught(tool, e) ==
    [threw |-> FALSE, text |-> ErrorPrefix(tool) \o ": " \o ErrorText(e)]

\* the response of a handler whose try block ran to its return; its text is
\* the rendering of what the accessor returned
Answered(tool) == [threw |-> FALSE, text |-> "ok"]

\* the handler of the tool calls getBrandBible, directly or through an
\* accessor; sodax_list_subsections reads a table of its own
CallsCore(tool) == tool # "sodax_list_subsections"

\* the handler of the tool fetches: the refresh handler has just run
\* clearCache(), the others fetch when the cache is empty or stale
ToolFetches(tool) ==
    /\ CallsCore(tool)
    /\ tool = "sodax_refresh_brand_bible" \/ ~IsFresh(cachedData, cacheTimestamp, clock)
    /\ fetchCount < MaxFetches

\* the cache after a handler whose getBrandBible threw: what the refresh
\* handler's clearCache() left, or what it was
AfterThrow(tool) ==
    IF tool = "sodax_refresh_brand_bible"
    THEN [data |-> NULL, timestamp |-> 0]
    ELSE [data |-> cachedData, timestamp |-> cacheTimestamp]

\* ---------------------------------------------------------------- actions

\* A handler is served from the fresh cache.
ToolHit(tool) ==
    /\ CallsCore(tool)
    /\ tool # "sodax_refresh_brand_bible"
    /\ IsFresh(cachedData, cacheTimestamp, clock)
    /\ reply' = [op |-> tool, rejection |-> NoRejection, raised |-> NoError,
                 response |-> Answered(tool)]
    /\ UNCHANGED <<cacheVars, html, brandBible>>

\* A handler fetches and parses the page, stores the snapshot and answers.
ToolRebuild(tool) ==
    /\ ToolFetches(tool)
    /\ fetchCount' = fetchCount + 1
    /\ cachedData' = parseBrandBible(fetchCount + 1)
    /\ cacheTimestamp' = clock
    /\ reply' = [op |-> tool, rejection |-> NoRejection, raised |-> NoError,
                 response |-> Answered(tool)]
    /\ UNCHANGED <<clock, advances, calls, last, invalidation, refreshed>>
    /\ UNCHANGED <<html, brandBible>>

\* The axios.get of a handler rejects with f, after the timeout when f is
\* the timeout: fetchBrandBibleHtml throws, getBrandBible and the accessor
\* pass the error on, and the handler's catch answers.
ToolFetchFails(tool, f) ==
    /\ ToolFetches(tool)
    /\ fetchCount' = fetchCount + 1
    /\ clock' = IF f.code = "ECONNABORTED" THEN clock + FETCH_TIMEOUT_MS ELSE clock
    /\ cachedData' = AfterThrow(tool).data
    /\ cacheTimestamp' = AfterThrow(tool).timestamp
    /\ reply' = [op |-> tool, rejection |-> f, raised |-> fetchBrandBibleHtml(f),
                 response |-> Caught(tool, fetchBrandBibleHtml(f))]
    /\ UNCHANGED <<advances, calls, last, invalidation, refreshed>>
    /\ UNCHANGED <<html, brandBible>>

\* The page arrives and parseBrandBible throws e: the handler's catch answers.
ToolParseFails(tool, e) ==
    /\ ToolFetches(tool)
    /\ fetchCount' = fetchCount + 1
    /\ cachedData' = AfterThrow(tool).data
    /\ cacheTimestamp' = AfterThrow(tool).timestamp
    /\ reply' = [op |-> tool, rejection |-> NoRejection, raised |-> e,
                 response |-> Caught(tool, e)]
    /\ UNCHANGED <<clock, advances, calls, last, invalidation, refreshed>>
    /\ UNCHANGED <<html, brandBible>>

\* sodax_list_subsections answers from its own table.
ToolList ==
    /\ reply' = [op |-> "sodax_list_subsections", rejection |-> NoRejection,
                 raised |-> NoError,
                 response |-> Answered("sodax_list_subsections")]
    /\ UNCHANGED <<cacheVars, html, brandBible>>

NextTools ==
    \/ \E d \in Steps : Advance(d)
    \/ \E tool \in Tools : ToolHit(tool)
    \/ \E tool \in Tools : ToolRebuild(tool)
    \/ \E tool \in Tools, f \in Rejections : ToolFetchFails(tool, f)
    \/ \E tool \in Tools, e \in ParseErrors : ToolParseFails(tool, e)
    \/ ToolList

SpecTools == Init /\ [][NextTools]_vars

\* ------------------------------------------------------------- properties

\* a handler has answered after its axios.get rejected
Rejected == reply.op \in Tools /\ reply.rejection # NoRejection

\* C21: every rejection of axios.get by an AxiosError makes
\* fetchBrandBibleHtml throw exactly one of three errors: NotFound when the
\* response status is 404, whatever the error code; Timeout when the status
\* is not 404 and the code is ECONNABORTED; TransportError, whose message
\* ends with the message of the AxiosError, in every other case.  No
\* rejection, of an AxiosError or of any other value, ends in a returned page:
\* an error is raised, no snapshot of that fetch is stored and the handler
\* answers with the error's text.
C21_FetchErrorKinds ==
    Rejected =>
        LET r == reply.rejection
            e == reply.raised
        IN  /\ e # NoError
            /\ cachedData.id # fetchCount
            /\ reply.response # Answered(reply.op)
            /\ r.axios =>
                /\ e.isError
                /\ e.kind \in {"NotFound", "Timeout", "TransportError"}
                /\ (r.status = 404) =>
                      /\ e.kind = "NotFound"
                      /\ e.message = "Brand Bible page not found. The URL may have changed."
                /\ (r.status # 404 /\ r.code = "ECONNABORTED") =>
                      /\ e.kind = "Timeout"
                      /\ e.message = "Request timed out while fetching Brand Bible. Please try again."
                /\ (r.status # 404 /\ r.code # "ECONNABORTED") =>
                      /\ e.kind = "TransportError"
                      /\ e.message = "Failed to fetch Brand Bible: " \o r.message

\* a rejection with a 404 response that also carries the timeout code has
\* been mapped to NotFound
C21_Witness ==
    /\ Rejected
    /\ reply.rejection.axios
    /\ reply.rejection.status = 404
    /\ reply.rejection.code = "ECONNABORTED"
    /\ reply.raised.kind = "NotFound"

\* C22: no handler throws.  Whatever fetchBrandBibleHtml or parseBrandBible
\* raised, an Error or any other value, the handler of each of the tools
\* overview, section, subsection, search and refresh returns a response whose
\* text is the tool's own error prefix, a colon and the message of the Error
\* (or the string form of the value); the list handler, which does not call
\* the core, answers as well.
C22_HandlerReportsError ==
    reply.op \in Tools =>
        LET prefix == [t \in Tools |->
                CASE t = "sodax_get_brand_overview" -> "Error fetching brand bible overview: "
                  [] t = "sodax_get_section" -> "Error fetching section: "
                  [] t = "sodax_get_subsection" -> "Error fetching subsection: "
                  [] t = "sodax_search_brand_bible" -> "Error searching brand bible: "
                  [] t = "sodax_refresh_brand_bible" -> "Error refreshing cache: "
                  [] t = "sodax_list_subsections" -> "Error listing subsections: "]
            e == reply.raised
        IN  /\ ~reply.response.threw
            /\ (e # NoError) =>
                  reply.response.text =
                      prefix[reply.op] \o (IF e.isError THEN e.message ELSE e.str)

\* the refresh handler has answered a timed-out fetch with its error text,
\* the cache left empty by its clearCache()
C22_Witness ==
    /\ reply.op = "sodax_refresh_brand_bible"
    /\ reply.raised.kind = "Timeout"
    /\ ~reply.response.threw
    /\ reply.response.text =
         "Error refreshing cache: Request timed out while fetching Brand Bible. Please try again."
    /\ cachedData = NULL

\* ======================================================================
\* Parsing and lookup: extractTextContent, parseSections, getSection,
\* getSubsection, searchBrandBible, calculateRelevance
\* ======================================================================

\* ---------------------------------------------------------------- strings
\* A string is the sequence of its UTF-16 code units.  A code unit is written
\* as the character it prints as; "U+0130" is the capital I with dot above,
\* "U+0307" the combining dot above and "U+2022" the bullet.

UpperCase ==
    <<"A", "B", "C", "D", "E", "F", "G", "H", "I", "J", "K", "L", "M",
      "N", "O", "P", "Q", "R", "S", "T", "U", "V", "W", "X", "Y", "Z">>
LowerCase ==
    <<"a", "b", "c", "d", "e", "f", "g", "h", "i", "j", "k", "l", "m",
      "n", "o", "p", "q", "r", "s", "t", "u", "v", "w", "x", "y", "z">>
UpperSet == {UpperCase[k] : k \in DOMAIN UpperCase}
LowerSet == {LowerCase[k] : k \in DOMAIN LowerCase}
\* \d, \s and [A-Z] under the i flag
Digit == {"0", "1", "2", "3", "4", "5", "6", "7", "8", "9"}
WhiteSpace == {" ", "\n", "\t"}
Letter == UpperSet \cup LowerSet

ToLower == [c \in UpperSet |-> LowerCase[CHOOSE k \in DOMAIN UpperCase : UpperCase[k] = c]]
ToUpper == [c \in LowerSet |-> UpperCase[CHOOSE k \in DOMAIN LowerCase : LowerCase[k] = c]]

\* the least element of a non-empty set of positions
Least(S) == CHOOSE x \in S : \A y \in S : x <= y
\* the greatest element of a non-empty set of positions
Greatest(S) == CHOOSE x \in S : \A y \in S : x >= y

\* the concatenation of ss[lo..hi]
RECURSIVE ConcatRange(_, _, _)
ConcatRange(ss, lo, hi) ==
    IF lo > hi THEN <<>>
    ELSE IF lo = hi THEN ss[lo]
    ELSE LET mid == (lo + hi) \div 2
         IN  ConcatRange(ss, lo, mid) \o ConcatRange(ss, mid + 1, hi)

\* the concatenation of a sequence of strings
Concat(ss) == ConcatRange(ss, 1, Len(ss))

\* toLowerCase() of one code unit: the capital I with dot above becomes an i
\* followed by the combining dot, two code units
LowerOf(c) ==
    IF c \in UpperSet THEN <<ToLower[c]>>
    ELSE IF c = "U+0130" THEN <<"i", "U+0307">>
    ELSE <<c>>

\* String.prototype.toLowerCase
toLowerCase(s) == Concat([i \in 1..Len(s) |-> LowerOf(s[i])])

\* t occurs in s at position i
StartsAt(s, i, t) ==
    /\ i + Len(t) - 1 <= Len(s)
    /\ \A k \in 1..Len(t) : s[i + k - 1] = t[k]

\* String.prototype.includes
includes(s, t) == \E i \in 1..(Len(s) - Len(t) + 1) : StartsAt(s, i, t)

\* String.prototype.startsWith
startsWith(s, t) == StartsAt(s, 1, t)

\* s.split(t).length - 1 for a non-empty t: the occurrences of t found from
\* position `from` on, each search resuming after the previous occurrence
RECURSIVE SplitCount(_, _, _)
SplitCount(s, t, from) ==
    LET hits == {i \in from..(Len(s) - Len(t) + 1) : StartsAt(s, i, t)}
    IN  IF hits = {} THEN 0 ELSE 1 + SplitCount(s, t, Least(hits) + Len(t))

\* number of consecutive code units of `set` in s from position i on
RECURSIVE Run(_, _, _)
Run(s, i, set) ==
    IF i <= Len(s) /\ s[i] \in set THEN 1 + Run(s, i + 1, set) ELSE 0

\* number of consecutive code units of `set` in s from position i backwards
RECURSIVE RunBack(_, _, _)
RunBack(s, i, set) ==
    IF i >= 1 /\ s[i] \in set THEN 1 + RunBack(s, i - 1, set) ELSE 0

\* String.prototype.trim
trim(s) ==
    LET lead == Run(s, 1, WhiteSpace)
    IN  IF lead = Len(s) THEN <<>>
        ELSE SubSeq(s, lead + 1, Len(s) - RunBack(s, Len(s), WhiteSpace))

\* s.slice(0, k)
slice(s, k) == SubSeq(s, 1, IF Len(s) < k THEN Len(s) ELSE k)

\* s.split(/\s+/)
RECURSIVE SplitWhiteSpace(_)
SplitWhiteSpace(s) ==
    LET seps == {i \in 1..Len(s) : s[i] \in WhiteSpace}
    IN  IF seps = {} THEN <<s>>
        ELSE LET i == Least(seps)
             IN  <<SubSeq(s, 1, i - 1)>> \o
                 SplitWhiteSpace(SubSeq(s, i + Run(s, i, WhiteSpace), Len(s)))

\* ss.join(sep)
join(ss, sep) ==
    Concat([k \in 1..Len(ss) |-> IF k = 1 THEN ss[k] ELSE sep \o ss[k]])

\* ------------------------------------------------------------ regular expressions
\* A pattern is a sequence of atoms: a literal code unit or the wildcard.
\* Under the i flag two code units match when they canonicalize alike.
Canonicalize(c) == IF c \in LowerSet THEN ToUpper[c] ELSE c

\* str interpolated into a pattern as it is: a dot is the wildcard
Interpolated(str) ==
    [k \in 1..Len(str) |-> [any |-> (str[k] = "."), ch |-> str[k]]]

\* escapeRegex(str) interpolated into a pattern: every code unit is a literal
escapeRegex(str) == [k \in 1..Len(str) |-> [any |-> FALSE, ch |-> str[k]]]

\* atom a matches code unit c (the wildcard matches all but line ends)
AtomMatches(a, c) ==
    IF a.any THEN c # "\n" ELSE Canonicalize(a.ch) = Canonicalize(c)

\* the atoms match the text from position i on
AtomsMatchAt(text, i, atoms) ==
    /\ i + Len(atoms) - 1 <= Len(text)
    /\ \A k \in 1..Len(atoms) : AtomMatches(atoms[k], text[i + k - 1])

\* The position after a match of  head \s* name  that starts at i, 0 when
\* there is none.  \s* is greedy and gives back what the name needs.
HeadingEndAt(text, i, head, name) ==
    IF ~AtomsMatchAt(text, i, head) THEN 0
    ELSE LET j == i + Len(head)
             ws == {w \in 0..Run(text, j, WhiteSpace) :
                       AtomsMatchAt(text, j + w, name)}
         IN  IF ws = {} THEN 0 ELSE j + Greatest(ws) + Len(name)

\* (?=\d+\.\d+|\d+\.|$), the part before the end of input: digits and a dot
NumberAhead(text, j) ==
    /\ j <= Len(text)
    /\ text[j] \in Digit
    /\ LET k == j + Run(text, j, Digit)
       IN  k <= Len(text) /\ text[k] = "."

\* (?=\d+\.\s+[A-Z]|$), the part before the end of input: digits, a dot,
\* white space and a letter
NumberedHeadingAhead(text, j) ==
    /\ NumberAhead(text, j)
    /\ LET k == j + Run(text, j, Digit) + 1
           w == Run(text, k, WhiteSpace)
       IN  w >= 1 /\ k + w <= Len(text) /\ text[k + w] \in Letter

\* Object.entries(SECTION_NAMES): the six sections, in key order
SECTION_NAMES ==
    <<
      \* "1": "Brand Essence and Foundations"
      [id |-> <<"1">>,
       name |-> <<"B", "r", "a", "n", "d", " ", "E", "s", "s", "e", "n", "c",
                 "e", " ", "a", "n", "d", " ", "F", "o", "u", "n", "d", "a",
                 "t", "i", "o", "n", "s">>],
      \* "2": "Positioning and Messaging Architecture"
      [id |-> <<"2">>,
       name |-> <<"P", "o", "s", "i", "t", "i", "o", "n", "i", "n", "g", " ",
                 "a", "n", "d", " ", "M", "e", "s", "s", "a", "g", "i", "n",
                 "g", " ", "A", "r", "c", "h", "i", "t", "e", "c", "t", "u",
                 "r", "e">>],
      \* "3": "Verbal Identity"
      [id |-> <<"3">>,
       name |-> <<"V", "e", "r", "b", "a", "l", " ", "I", "d", "e", "n", "t",
                 "i", "t", "y">>],
      \* "4": "Visual Identity"
      [id |-> <<"4">>,
       name |-> <<"V", "i", "s", "u", "a", "l", " ", "I", "d", "e", "n", "t",
                 "i", "t", "y">>],
      \* "5": "Brand Expression Across Channels"
      [id |-> <<"5">>,
       name |-> <<"B", "r", "a", "n", "d", " ", "E", "x", "p", "r", "e", "s",
                 "s", "i", "o", "n", " ", "A", "c", "r", "o", "s", "s", " ",
                 "C", "h", "a", "n", "n", "e", "l", "s">>],
      \* "6": "Brand Use in Partnerships and Integrations"
      [id |-> <<"6">>,
       name |-> <<"B", "r", "a", "n", "d", " ", "U", "s", "e", " ", "i", "n",
                 " ", "P", "a", "r", "t", "n", "e", "r", "s", "h", "i", "p",
                 "s", " ", "a", "n", "d", " ", "I", "n", "t", "e", "g", "r",
                 "a", "t", "i", "o", "n", "s">>]
    >>

\* Object.entries(SUBSECTION_NAMES): the subsections, in insertion order
\* (no key is an array index, so the order is the order they are written in)
SUBSECTION_NAMES ==
    <<
      \* "1.1": "Brand Overview"
      [id |-> <<"1", ".", "1">>,
       name |-> <<"B", "r", "a", "n", "d", " ", "O", "v", "e", "r", "v", "i",
                 "e", "w">>],
      \* "1.2": "Brand Purpose"
      [id |-> <<"1", ".", "2">>,
       name |-> <<"B", "r", "a", "n", "d", " ", "P", "u", "r", "p", "o", "s",
                 "e">>],
      \* "1.3": "Brand Promise"
      [id |-> <<"1", ".", "3">>,
       name |-> <<"B", "r", "a", "n", "d", " ", "P", "r", "o", "m", "i", "s",
                 "e">>],
      \* "1.4": "Brand Values"
      [id |-> <<"1", ".", "4">>,
       name |-> <<"B", "r", "a", "n", "d", " ", "V", "a", "l", "u", "e", "s">>],
      \* "1.5": "Brand Personality"
      [id |-> <<"1", ".", "5">>,
       name |-> <<"B", "r", "a", "n", "d", " ", "P", "e", "r", "s", "o", "n",
                 "a", "l", "i", "t", "y">>],
      \* "1.6": "Core Brand Idea"
      [id |-> <<"1", ".", "6">>,
       name |-> <<"C", "o", "r", "e", " ", "B", "r", "a", "n", "d", " ", "I",
                 "d", "e", "a">>],
      \* "2.1": "Market Context"
      [id |-> <<"2", ".", "1">>,
       name |-> <<"M", "a", "r", "k", "e", "t", " ", "C", "o", "n", "t", "e",
                 "x", "t">>],
      \* "2.2": "Category Definition"
      [id |-> <<"2", ".", "2">>,
       name |-> <<"C", "a", "t", "e", "g", "o", "r", "y", " ", "D", "e", "f",
                 "i", "n", "i", "t", "i", "o", "n">>],
      \* "2.3": "Problem Statement"
      [id |-> <<"2", ".", "3">>,
       name |-> <<"P", "r", "o", "b", "l", "e", "m", " ", "S", "t", "a", "t",
                 "e", "m", "e", "n", "t">>],
      \* "2.4": "SODAX Positioning Statement"
      [id |-> <<"2", ".", "4">>,
       name |-> <<"S", "O", "D", "A", "X", " ", "P", "o", "s", "i", "t", "i",
                 "o", "n", "i", "n", "g", " ", "S", "t", "a", "t", "e", "m",
                 "e", "n", "t">>],
      \* "2.5": "Audience Segmentation"
      [id |-> <<"2", ".", "5">>,
       name |-> <<"A", "u", "d", "i", "e", "n", "c", "e", " ", "S", "e", "g",
                 "m", "e", "n", "t", "a", "t", "i", "o", "n">>],
      \* "2.6": "Messaging Pillars"
      [id |-> <<"2", ".", "6">>,
       name |-> <<"M", "e", "s", "s", "a", "g", "i", "n", "g", " ", "P", "i",
                 "l", "l", "a", "r", "s">>],
      \* "2.7": "Value Propositions by Audience"
      [id |-> <<"2", ".", "7">>,
       name |-> <<"V", "a", "l", "u", "e", " ", "P", "r", "o", "p", "o", "s",
                 "i", "t", "i", "o", "n", "s", " ", "b", "y", " ", "A", "u",
                 "d", "i", "e", "n", "c", "e">>],
      \* "2.8": "Competitive Differentiation"
      [id |-> <<"2", ".", "8">>,
       name |-> <<"C", "o", "m", "p", "e", "t", "i", "t", "i", "v", "e", " ",
                 "D", "i", "f", "f", "e", "r", "e", "n", "t", "i", "a", "t",
                 "i", "o", "n">>],
      \* "2.9": "Proof Points"
      [id |-> <<"2", ".", "9">>,
       name |-> <<"P", "r", "o", "o", "f", " ", "P", "o", "i", "n", "t", "s">>],
      \* "2.10": "Positioning Guardrails"
      [id |-> <<"2", ".", "1", "0">>,
       name |-> <<"P", "o", "s", "i", "t", "i", "o", "n", "i", "n", "g", " ",
                 "G", "u", "a", "r", "d", "r", "a", "i", "l", "s">>],
      \* "3.1": "Tone of Voice"
      [id |-> <<"3", ".", "1">>,
       name |-> <<"T", "o", "n", "e", " ", "o", "f", " ", "V", "o", "i", "c",
                 "e">>],
      \* "3.2": "Writing Principles"
      [id |-> <<"3", ".", "2">>,
       name |-> <<"W", "r", "i", "t", "i", "n", "g", " ", "P", "r", "i", "n",
                 "c", "i", "p", "l", "e", "s">>],
      \* "3.3": "How We Talk to B2B Builders"
      [id |-> <<"3", ".", "3">>,
       name |-> <<"H", "o", "w", " ", "W", "e", " ", "T", "a", "l", "k", " ",
                 "t", "o", " ", "B", "2", "B", " ", "B", "u", "i", "l", "d",
                 "e", "r", "s">>],
      \* "3.4": "How We Talk to B2C Users"
      [id |-> <<"3", ".", "4">>,
       name |-> <<"H", "o", "w", " ", "W", "e", " ", "T", "a", "l", "k", " ",
                 "t", "o", " ", "B", "2", "C", " ", "U", "s", "e", "r", "s">>],
      \* "3.5": "Messaging Do's and Don'ts"
      [id |-> <<"3", ".", "5">>,
       name |-> <<"M", "e", "s", "s", "a", "g", "i", "n", "g", " ", "D", "o",
                 "'", "s", " ", "a", "n", "d", " ", "D", "o", "n", "'", "t",
                 "s">>],
      \* "3.6": "Example Message Patterns"
      [id |-> <<"3", ".", "6">>,
       name |-> <<"E", "x", "a", "m", "p", "l", "e", " ", "M", "e", "s", "s",
                 "a", "g", "e", " ", "P", "a", "t", "t", "e", "r", "n", "s">>],
      \* "4.1": "Logo Usage"
      [id |-> <<"4", ".", "1">>,
       name |-> <<"L", "o", "g", "o", " ", "U", "s", "a", "g", "e">>],
      \* "4.2": "Selected Color Palette"
      [id |-> <<"4", ".", "2">>,
       name |-> <<"S", "e", "l", "e", "c", "t", "e", "d", " ", "C", "o", "l",
                 "o", "r", " ", "P", "a", "l", "e", "t", "t", "e">>],
      \* "4.3": "Typography"
      [id |-> <<"4", ".", "3">>,
       name |-> <<"T", "y", "p", "o", "g", "r", "a", "p", "h", "y">>],
      \* "4.4": "Iconography"
      [id |-> <<"4", ".", "4">>,
       name |-> <<"I", "c", "o", "n", "o", "g", "r", "a", "p", "h", "y">>],
      \* "4.5": "Layout and Composition"
      [id |-> <<"4", ".", "5">>,
       name |-> <<"L", "a", "y", "o", "u", "t", " ", "a", "n", "d", " ", "C",
                 "o", "m", "p", "o", "s", "i", "t", "i", "o", "n">>],
      \* "4.6": "Motion and Animation"
      [id |-> <<"4", ".", "6">>,
       name |-> <<"M", "o", "t", "i", "o", "n", " ", "a", "n", "d", " ", "A",
                 "n", "i", "m", "a", "t", "i", "o", "n">>],
      \* "4.7": "Accessibility Standards"
      [id |-> <<"4", ".", "7">>,
       name |-> <<"A", "c", "c", "e", "s", "s", "i", "b", "i", "l", "i", "t",
                 "y", " ", "S", "t", "a", "n", "d", "a", "r", "d", "s">>],
      \* "5.1": "Shared Principles (All Channels)"
      [id |-> <<"5", ".", "1">>,
       name |-> <<"S", "h", "a", "r", "e", "d", " ", "P", "r", "i", "n", "c",
                 "i", "p", "l", "e", "s", " ", "(", "A", "l", "l", " ", "C",
                 "h", "a", "n", "n", "e", "l", "s", ")">>],
      \* "5.2": "X"
      [id |-> <<"5", ".", "2">>,
       name |-> <<"X">>],
      \* "5.3": "Reddit"
      [id |-> <<"5", ".", "3">>,
       name |-> <<"R", "e", "d", "d", "i", "t">>],
      \* "5.4": "YouTube"
      [id |-> <<"5", ".", "4">>,
       name |-> <<"Y", "o", "u", "T", "u", "b", "e">>],
      \* "5.5": "Consistency Rule"
      [id |-> <<"5", ".", "5">>,
       name |-> <<"C", "o", "n", "s", "i", "s", "t", "e", "n", "c", "y", " ",
                 "R", "u", "l", "e">>],
      \* "6.1": "Core Principle"
      [id |-> <<"6", ".", "1">>,
       name |-> <<"C", "o", "r", "e", " ", "P", "r", "i", "n", "c", "i", "p",
                 "l", "e">>],
      \* "6.2": "Partner Announcements"
      [id |-> <<"6", ".", "2">>,
       name |-> <<"P", "a", "r", "t", "n", "e", "r", " ", "A", "n", "n", "o",
                 "u", "n", "c", "e", "m", "e", "n", "t", "s">>],
      \* "6.3": "Visual Presence in Partner Contexts"
      [id |-> <<"6", ".", "3">>,
       name |-> <<"V", "i", "s", "u", "a", "l", " ", "P", "r", "e", "s", "e",
                 "n", "c", "e", " ", "i", "n", " ", "P", "a", "r", "t", "n",
                 "e", "r", " ", "C", "o", "n", "t", "e", "x", "t", "s">>],
      \* "6.4": "Case Studies (External)"
      [id |-> <<"6", ".", "4">>,
       name |-> <<"C", "a", "s", "e", " ", "S", "t", "u", "d", "i", "e", "s",
                 " ", "(", "E", "x", "t", "e", "r", "n", "a", "l", ")">>],
      \* "6.5": "Developer-facing Contexts"
      [id |-> <<"6", ".", "5">>,
       name |-> <<"D", "e", "v", "e", "l", "o", "p", "e", "r", "-", "f", "a",
                 "c", "i", "n", "g", " ", "C", "o", "n", "t", "e", "x", "t",
                 "s">>]
    >>

\* the descriptions table of getDefaultSectionDescription
descriptions ==
    <<
      \* "1":
      \*   Defines SODAX's core identity, purpose, promise, values,
      \*   personality, and central brand idea.
      [id |-> <<"1">>,
       text |-> <<"D", "e", "f", "i", "n", "e", "s", " ", "S", "O", "D", "A",
                 "X", "'", "s", " ", "c", "o", "r", "e", " ", "i", "d", "e",
                 "n", "t", "i", "t", "y", ",", " ", "p", "u", "r", "p", "o",
                 "s", "e", ",", " ", "p", "r", "o", "m", "i", "s", "e", ",",
                 " ", "v", "a", "l", "u", "e", "s", ",", " ", "p", "e", "r",
                 "s", "o", "n", "a", "l", "i", "t", "y", ",", " ", "a", "n",
                 "d", " ", "c", "e", "n", "t", "r", "a", "l", " ", "b", "r",
                 "a", "n", "d", " ", "i", "d", "e", "a", ".">>],
      \* "2":
      \*   Covers market positioning, audience segmentation, messaging
      \*   pillars, value propositions, and competitive differentiation.
      [id |-> <<"2">>,
       text |-> <<"C", "o", "v", "e", "r", "s", " ", "m", "a", "r", "k", "e",
                 "t", " ", "p", "o", "s", "i", "t", "i", "o", "n", "i", "n",
                 "g", ",", " ", "a", "u", "d", "i", "e", "n", "c", "e", " ",
                 "s", "e", "g", "m", "e", "n", "t", "a", "t", "i", "o", "n",
                 ",", " ", "m", "e", "s", "s", "a", "g", "i", "n", "g", " ",
                 "p", "i", "l", "l", "a", "r", "s", ",", " ", "v", "a", "l",
                 "u", "e", " ", "p", "r", "o", "p", "o", "s", "i", "t", "i",
                 "o", "n", "s", ",", " ", "a", "n", "d", " ", "c", "o", "m",
                 "p", "e", "t", "i", "t", "i", "v", "e", " ", "d", "i", "f",
                 "f", "e", "r", "e", "n", "t", "i", "a", "t", "i", "o", "n",
                 ".">>],
      \* "3":
      \*   SODAX is serious infrastructure. Our voice should feel calm,
      \*   competent, and human. We translate complex cross-network execution
      \*   into language that is clear, credible, and easy to repeat.
      [id |-> <<"3">>,
       text |-> <<"S", "O", "D", "A", "X", " ", "i", "s", " ", "s", "e", "r",
                 "i", "o", "u", "s", " ", "i", "n", "f", "r", "a", "s", "t",
                 "r", "u", "c", "t", "u", "r", "e", ".", " ", "O", "u", "r",
                 " ", "v", "o", "i", "c", "e", " ", "s", "h", "o", "u", "l",
                 "d", " ", "f", "e", "e", "l", " ", "c", "a", "l", "m", ",",
                 " ", "c", "o", "m", "p", "e", "t", "e", "n", "t", ",", " ",
                 "a", "n", "d", " ", "h", "u", "m", "a", "n", ".", " ", "W",
                 "e", " ", "t", "r", "a", "n", "s", "l", "a", "t", "e", " ",
                 "c", "o", "m", "p", "l", "e", "x", " ", "c", "r", "o", "s",
                 "s", "-", "n", "e", "t", "w", "o", "r", "k", " ", "e", "x",
                 "e", "c", "u", "t", "i", "o", "n", " ", "i", "n", "t", "o",
                 " ", "l", "a", "n", "g", "u", "a", "g", "e", " ", "t", "h",
                 "a", "t", " ", "i", "s", " ", "c", "l", "e", "a", "r", ",",
                 " ", "c", "r", "e", "d", "i", "b", "l", "e", ",", " ", "a",
                 "n", "d", " ", "e", "a", "s", "y", " ", "t", "o", " ", "r",
                 "e", "p", "e", "a", "t", ".">>],
      \* "4":
      \*   SODAX's visual identity is adaptive, not rigid. It scales in
      \*   intensity based on context, intent, and user mindset.
      [id |-> <<"4">>,
       text |-> <<"S", "O", "D", "A", "X", "'", "s", " ", "v", "i", "s", "u",
                 "a", "l", " ", "i", "d", "e", "n", "t", "i", "t", "y", " ",
                 "i", "s", " ", "a", "d", "a", "p", "t", "i", "v", "e", ",",
                 " ", "n", "o", "t", " ", "r", "i", "g", "i", "d", ".", " ",
                 "I", "t", " ", "s", "c", "a", "l", "e", "s", " ", "i", "n",
                 " ", "i", "n", "t", "e", "n", "s", "i", "t", "y", " ", "b",
                 "a", "s", "e", "d", " ", "o", "n", " ", "c", "o", "n", "t",
                 "e", "x", "t", ",", " ", "i", "n", "t", "e", "n", "t", ",",
                 " ", "a", "n", "d", " ", "u", "s", "e", "r", " ", "m", "i",
                 "n", "d", "s", "e", "t", ".">>],
      \* "5":
      \*   Defines how the SODAX brand should appear across public channels
      \*   with consistency of meaning while allowing platform-native
      \*   expression.
      [id |-> <<"5">>,
       text |-> <<"D", "e", "f", "i", "n", "e", "s", " ", "h", "o", "w", " ",
                 "t", "h", "e", " ", "S", "O", "D", "A", "X", " ", "b", "r",
                 "a", "n", "d", " ", "s", "h", "o", "u", "l", "d", " ", "a",
                 "p", "p", "e", "a", "r", " ", "a", "c", "r", "o", "s", "s",
                 " ", "p", "u", "b", "l", "i", "c", " ", "c", "h", "a", "n",
                 "n", "e", "l", "s", " ", "w", "i", "t", "h", " ", "c", "o",
                 "n", "s", "i", "s", "t", "e", "n", "c", "y", " ", "o", "f",
                 " ", "m", "e", "a", "n", "i", "n", "g", " ", "w", "h", "i",
                 "l", "e", " ", "a", "l", "l", "o", "w", "i", "n", "g", " ",
                 "p", "l", "a", "t", "f", "o", "r", "m", "-", "n", "a", "t",
                 "i", "v", "e", " ", "e", "x", "p", "r", "e", "s", "s", "i",
                 "o", "n", ".">>],
      \* "6":
      \*   Defines how SODAX should be represented when it appears outside
      \*   its own managed channels.
      [id |-> <<"6">>,
       text |-> <<"D", "e", "f", "i", "n", "e", "s", " ", "h", "o", "w", " ",
                 "S", "O", "D", "A", "X", " ", "s", "h", "o", "u", "l", "d",
                 " ", "b", "e", " ", "r", "e", "p", "r", "e", "s", "e", "n",
                 "t", "e", "d", " ", "w", "h", "e", "n", " ", "i", "t", " ",
                 "a", "p", "p", "e", "a", "r", "s", " ", "o", "u", "t", "s",
                 "i", "d", "e", " ", "i", "t", "s", " ", "o", "w", "n", " ",
                 "m", "a", "n", "a", "g", "e", "d", " ", "c", "h", "a", "n",
                 "n", "e", "l", "s", ".">>]
    >>

\* the brandKeywords list of calculateRelevance
brandKeywords ==
    <<<<"l", "o", "g", "o">>,
      <<"c", "o", "l", "o", "r">>,
      <<"t", "y", "p", "o", "g", "r", "a", "p", "h", "y">>,
      <<"f", "o", "n", "t">>,
      <<"v", "o", "i", "c", "e">>,
      <<"t", "o", "n", "e">>,
      <<"m", "e", "s", "s", "a", "g", "e">>,
      <<"a", "u", "d", "i", "e", "n", "c", "e">>,
      <<"v", "a", "l", "u", "e">>,
      <<"p", "o", "s", "i", "t", "i", "o", "n", "i", "n", "g">>,
      <<"v", "i", "s", "u", "a", "l">>,
      <<"i", "d", "e", "n", "t", "i", "t", "y">>,
      <<"b", "r", "a", "n", "d">>,
      <<"s", "o", "d", "a", "x">>>>

\* ------------------------------------------------------ parseBrandBible

\* the limits of the content of a section and of a subsection
SectionContentLimit == 2000
SubsectionContentLimit == 1500

\* what extractTextContent appends for one element of the content area
ElementText(e) ==
    IF e.tag \in {"h1", "h2", "h3", "h4"}
    THEN <<"\n", "\n", "#", "#", " ">> \o trim(e.text) \o <<"\n">>
    ELSE IF e.tag \in {"p", "div"}
    THEN IF trim(e.text) # <<>> THEN trim(e.text) \o <<"\n">> ELSE <<>>
    ELSE IF e.tag = "li"
    THEN <<"U+2022", " ">> \o trim(e.text) \o <<"\n">>
    ELSE <<>>

\* a text whose newlines are left as they are
CollapseNewlines_none(t) == t

\* text.replace(/\n{3,}/g, "\n\n")
CollapseNewlines(t) ==
    Concat([i \in 1..Len(t) |->
              IF i >= 3 /\ t[i] = "\n" /\ t[i - 1] = "\n" /\ t[i - 2] = "\n"
              THEN <<>> ELSE <<t[i]>>])

\* extractTextContent: the flattened text of the elements of the page
extractTextContent(elements) ==
    trim(trim(CollapseNewlines(
        Concat([k \in 1..Len(elements) |-> ElementText(elements[k])]))))

\* the lookahead of the section pattern or of the subsection pattern holds at
\* position j of the text, the end of the input apart
LookaheadAt(ahead, text, j) ==
    IF ahead = "numbered heading" THEN NumberedHeadingAhead(text, j)
    ELSE NumberAhead(text, j)

\* content.match(regex) failed
NoMatch == [matched |-> FALSE, group |-> <<>>]

\* content.match(/head\s*name([\s\S]*?)(?=ahead|$)/i): the leftmost match of
\* the heading, and as its group the shortest text up to a position where the
\* lookahead holds or to the end of the input
Match(text, head, name, ahead) ==
    LET starts == {i \in 1..Len(text) : HeadingEndAt(text, i, head, name) > 0}
    IN  IF starts = {} THEN NoMatch
        ELSE LET from == HeadingEndAt(text, Least(starts), head, name)
                 stops == {j \in from..Len(text) : LookaheadAt(ahead, text, j)}
                 to == IF stops = {} THEN Len(text) + 1 ELSE Least(stops)
             IN  [matched |-> TRUE, group |-> SubSeq(text, from, to - 1)]

\* getDefaultSectionDescription
getDefaultSectionDescription(sectionNum) ==
    IF \E k \in DOMAIN descriptions : descriptions[k].id = sectionNum
    THEN descriptions[CHOOSE k \in DOMAIN descriptions :
                          descriptions[k].id = sectionNum].text
    ELSE <<"B", "r", "a", "n", "d", " ", "g", "u", "i", "d", "e", "l", "i",
      "n", "e", "s", " ", "c", "o", "n", "t", "e", "n", "t", ".">>

\* a section body that is not cut
extractSectionContent_uncut(content, sectionNum, sectionName) ==
    LET m == Match(content, Interpolated(sectionNum) \o escapeRegex(<<".">>),
                   escapeRegex(sectionName), "numbered heading")
    IN  IF m.matched THEN trim(m.group)
        ELSE getDefaultSectionDescription(sectionNum)

\* extractSectionContent
extractSectionContent(content, sectionNum, sectionName) ==
    LET m == Match(content, Interpolated(sectionNum) \o escapeRegex(<<".">>),
                   escapeRegex(sectionName), "numbered heading")
    IN  IF m.matched THEN slice(trim(m.group), SectionContentLimit)
        ELSE getDefaultSectionDescription(sectionNum)

\* the placeholder of a subsection no heading was found for
Placeholder(subName) ==
    <<"C", "o", "n", "t", "e", "n", "t", " ", "f", "o", "r", " ">> \o subName \o
    <<".", " ", "P", "l", "e", "a", "s", "e", " ", "r", "e", "f", "e", "r",
      " ", "t", "o", " ", "t", "h", "e", " ", "f", "u", "l", "l", " ", "B",
      "r", "a", "n", "d", " ", "B", "i", "b", "l", "e", " ", "f", "o", "r",
      " ", "d", "e", "t", "a", "i", "l", "s", ".">>

\* a subsection body that falls back to the section's description
extractSubsectionContent_sectionFallback(content, subId, subName) ==
    LET m == Match(content, Interpolated(subId), escapeRegex(subName), "number")
    IN  IF m.matched THEN slice(trim(m.group), SubsectionContentLimit)
        ELSE getDefaultSectionDescription(SubSeq(subId, 1, 1))

\* extractSubsectionContent
extractSubsectionContent(content, subId, subName) ==
    LET m == Match(content, Interpolated(subId), escapeRegex(subName), "number")
    IN  IF m.matched THEN slice(trim(m.group), SubsectionContentLimit)
        ELSE Placeholder(subName)

\* the entries of SUBSECTION_NAMES that belong to section sectionNum
SubsectionsOf(sectionNum) ==
    SelectSeq(SUBSECTION_NAMES,
              LAMBDA e : startsWith(e.id, sectionNum \o <<".">>))

\* a parse that lists only the subsections whose heading the page has
parseSections_foundOnly(content) ==
    [s \in 1..Len(SECTION_NAMES) |->
        LET sec == SECTION_NAMES[s]
            subs == SelectSeq(SubsectionsOf(sec.id),
                        LAMBDA e : Match(content, Interpolated(e.id),
                                         escapeRegex(e.name), "number").matched)
        IN  [id |-> sec.id,
             title |-> sec.name,
             content |-> extractSectionContent(content, sec.id, sec.name),
             subsections |->
                [k \in 1..Len(subs) |->
                    [id |-> subs[k].id,
                     title |-> subs[k].name,
                     content |-> extractSubsectionContent(
                                     content, subs[k].id, subs[k].name)]]]]

\* parseSections: one section per entry of SECTION_NAMES, each with one
\* subsection per entry of SUBSECTION_NAMES whose key starts with its number
parseSections(content) ==
    [s \in 1..Len(SECTION_NAMES) |->
        LET sec == SECTION_NAMES[s]
            subs == SubsectionsOf(sec.id)
        IN  [id |-> sec.id,
             title |-> sec.name,
             content |-> extractSectionContent(content, sec.id, sec.name),
             subsections |->
                [k \in 1..Len(subs) |->
                    [id |-> subs[k].id,
                     title |-> subs[k].name,
                     content |-> extractSubsectionContent(
                                     content, subs[k].id, subs[k].name)]]]]

\* ------------------------------------------------------------- accessors

\* null: what getSection and getSubsection return for an unknown id
NotFound == [id |-> <<>>, title |-> <<>>, content |-> <<>>]

\* the subsectionId and subsectionTitle of a search result for a section
undefined == <<"undefined">>

\* getSection on the snapshot: sections.find(s => s.id === sectionId) || null
getSection(sections, sectionId) ==
    LET hits == {s \in DOMAIN sections : sections[s].id = sectionId}
    IN  IF hits = {} THEN NotFound ELSE sections[Least(hits)]

\* getSubsection on the snapshot: the first subsection with the id, section
\* by section, or null
getSubsection(sections, subsectionId) ==
    LET Found(s) == {k \in DOMAIN sections[s].subsections :
                        sections[s].subsections[k].id = subsectionId}
        hits == {s \in DOMAIN sections : Found(s) # {}}
    IN  IF hits = {} THEN NotFound
        ELSE sections[Least(hits)].subsections[Least(Found(Least(hits)))]

\* a term's score with the count of its occurrences not capped
TermContribution_uncapped(contentLower, term) ==
    IF includes(contentLower, term)
    THEN 10 + SplitCount(contentLower, term, 1)
    ELSE 0

\* the first loop of calculateRelevance, for one term: 10 for a term the
\* content includes, and the number of its occurrences, at most 5
TermContribution(contentLower, term) ==
    IF includes(contentLower, term)
    THEN LET matches == SplitCount(contentLower, term, 1)
         IN  10 + (IF matches < 5 THEN matches ELSE 5)
    ELSE 0

\* a keyword's boost given whether or not the content has the keyword
KeywordContribution_anyContent(contentLower, queryTerms, keyword) ==
    IF \E k \in DOMAIN queryTerms :
          includes(queryTerms[k], keyword) \/ includes(keyword, queryTerms[k])
    THEN 5
    ELSE 0

\* the second loop of calculateRelevance, for one keyword
KeywordContribution(contentLower, queryTerms, keyword) ==
    IF \E k \in DOMAIN queryTerms :
          includes(queryTerms[k], keyword) \/ includes(keyword, queryTerms[k])
    THEN IF includes(contentLower, keyword) THEN 5 ELSE 0
    ELSE 0

\* the score after the terms from the k-th on
RECURSIVE TermLoop(_, _, _)
TermLoop(contentLower, queryTerms, k) ==
    IF k > Len(queryTerms) THEN 0
    ELSE TermContribution(contentLower, queryTerms[k])
         + TermLoop(contentLower, queryTerms, k + 1)

\* the score after the keywords from the k-th on
RECURSIVE KeywordLoop(_, _, _)
KeywordLoop(contentLower, queryTerms, k) ==
    IF k > Len(brandKeywords) THEN 0
    ELSE KeywordContribution(contentLower, queryTerms, brandKeywords[k])
         + KeywordLoop(contentLower, queryTerms, k + 1)

\* a score that compares the content as it is written
calculateRelevance_caseSensitive(content, queryTerms) ==
    TermLoop(content, queryTerms, 1) + KeywordLoop(content, queryTerms, 1)

\* calculateRelevance
calculateRelevance(content, queryTerms) ==
    LET contentLower == toLowerCase(content)
    IN  TermLoop(contentLower, queryTerms, 1)
        + KeywordLoop(contentLower, queryTerms, 1)

\* the terms of a query with terms of two code units kept
QueryTerms_keepShort(query) ==
    SelectSeq(SplitWhiteSpace(toLowerCase(query)), LAMBDA t : Len(t) >= 2)

\* query.toLowerCase().split(/\s+/).filter(t => t.length > 2)
QueryTerms(query) ==
    SelectSeq(SplitWhiteSpace(toLowerCase(query)), LAMBDA t : Len(t) > 2)

\* the blocks of the snapshot as searchBrandBible visits them, each with its
\* relevance: a section, then its subsections
Scored(sections, queryTerms) ==
    Concat([s \in 1..Len(sections) |->
        LET section == sections[s]
        IN  << [sectionId |-> section.id,
                sectionTitle |-> section.title,
                subsectionId |-> undefined,
                subsectionTitle |-> undefined,
                content |-> section.content,
                relevance |-> calculateRelevance(
                    section.title \o <<" ">> \o section.content, queryTerms)] >>
            \o [k \in 1..Len(section.subsections) |->
                  LET sub == section.subsections[k]
                  IN  [sectionId |-> section.id,
                       sectionTitle |-> section.title,
                       subsectionId |-> sub.id,
                       subsectionTitle |-> sub.title,
                       content |-> sub.content,
                       relevance |-> calculateRelevance(
                           sub.title \o <<" ">> \o sub.content, queryTerms)]]])

\* results with r put behind the results that are at least as relevant
Insert(results, r) ==
    LET before == Cardinality({k \in DOMAIN results :
                                  results[k].relevance >= r.relevance})
    IN  SubSeq(results, 1, before) \o <<r>>
        \o SubSeq(results, before + 1, Len(results))

\* a sort that puts a result before the results that are as relevant
RECURSIVE sort_unstable(_, _)
sort_unstable(results, n) ==
    IF n = 0 THEN <<>>
    ELSE LET sorted == sort_unstable(results, n - 1)
             r == results[n]
             before == Cardinality({k \in DOMAIN sorted :
                                       sorted[k].relevance > r.relevance})
         IN  SubSeq(sorted, 1, before) \o <<r>>
             \o SubSeq(sorted, before + 1, Len(sorted))

\* results.sort((a, b) => b.relevance - a.relevance) of the first n results:
\* descending and stable
RECURSIVE sort(_, _)
sort(results, n) ==
    IF n = 0 THEN <<>> ELSE Insert(sort(results, n - 1), results[n])

\* a search that returns every block, relevant or not
searchBrandBible_all(sections, query) ==
    LET results == Scored(sections, QueryTerms(query))
    IN  sort(results, Len(results))

\* searchBrandBible on the snapshot
searchBrandBible(sections, query) ==
    LET results == SelectSeq(Scored(sections, QueryTerms(query)),
                             LAMBDA r : r.relevance > 0)
    IN  sort(results, Len(results))

\* ------------------------------------------------------------ tool layer

\* GetSectionInputSchema: section_id matches /^[1-6]$/
GetSectionInputSchema(section_id) ==
    Len(section_id) = 1 /\ section_id[1] \in {"1", "2", "3", "4", "5", "6"}

\* GetSubsectionInputSchema: subsection_id matches /^\d+\.\d+$/
GetSubsectionInputSchema(subsection_id) ==
    LET d == Run(subsection_id, 1, Digit)
    IN  /\ d >= 1
        /\ d + 1 <= Len(subsection_id)
        /\ subsection_id[d + 1] = "."
        /\ Run(subsection_id, d + 2, Digit) >= 1
        /\ d + 1 + Run(subsection_id, d + 2, Digit) = Len(subsection_id)

\* Object.keys(SUBSECTION_NAMES)
SubsectionKeys == [k \in 1..Len(SUBSECTION_NAMES) |-> SUBSECTION_NAMES[k].id]

\* the sodax_get_section handler on the snapshot: its not-found response,
\* or the section as structured content
sodax_get_section(sections, section_id) ==
    LET section == getSection(sections, section_id)
    IN  IF section = NotFound
        THEN [found |-> FALSE,
              text |-> <<"E", "r", "r", "o", "r", ":", " ", "S", "e", "c",
                "t", "i", "o", "n", " ", "'">> \o section_id \o
                       <<"'", " ", "n", "o", "t", " ", "f", "o", "u", "n",
                         "d", ".", " ", "V", "a", "l", "i", "d", " ", "s",
                         "e", "c", "t", "i", "o", "n", "s", " ", "a", "r",
                         "e", " ", "1", "-", "6", ".">>]
        ELSE [found |-> TRUE, text |-> section.content]

\* a sodax_get_subsection handler that lists no ids
sodax_get_subsection_bare(sections, subsection_id) ==
    LET subsection == getSubsection(sections, subsection_id)
    IN  IF subsection = NotFound
        THEN [found |-> FALSE,
              text |-> <<"E", "r", "r", "o", "r", ":", " ", "S", "u", "b",
                "s", "e", "c", "t", "i", "o", "n", " ",
                "'">> \o subsection_id \o
                       <<"'", " ", "n", "o", "t", " ", "f", "o", "u", "n",
                         "d", ".">>]
        ELSE [found |-> TRUE, text |-> subsection.content]

\* the sodax_get_subsection handler on the snapshot
sodax_get_subsection(sections, subsection_id) ==
    LET subsection == getSubsection(sections, subsection_id)
    IN  IF subsection = NotFound
        THEN [found |-> FALSE,
              text |-> <<"E", "r", "r", "o", "r", ":", " ", "S", "u", "b",
                "s", "e", "c", "t", "i", "o", "n", " ",
                "'">> \o subsection_id \o
                       <<"'", " ", "n", "o", "t", " ", "f", "o", "u", "n",
                         "d", ".", "\n", "\n", "A", "v", "a", "i", "l", "a",
                         "b", "l", "e", " ", "s", "u", "b", "s", "e", "c",
                         "t", "i", "o", "n", "s", ":", " ">> \o
                       join(SubsectionKeys, <<",", " ">>)]
        ELSE [found |-> TRUE, text |-> subsection.content]

\* ---------------------------------------------------------------- inputs

\* the elements a page is made of: a section heading set as a block, a
\* subsection heading, a paragraph longer than either content limit, a
\* paragraph that names the logo five times, and a paragraph that opens with
\* a capital I with dot above
Elements ==
    << [tag |-> "div", text |-> <<"4", ".", " ", "V", "i", "s", "u", "a",
      "l", " ", "I", "d", "e", "n", "t", "i", "t", "y">>],
       [tag |-> "h3", text |-> <<"4", ".", "1", " ", "L", "o", "g", "o", " ",
         "U", "s", "a", "g", "e">>],
       [tag |-> "p", text |-> [i \in 1..FillerLength |-> "x"]],
       [tag |-> "p",
        text |-> <<"O", "u", "r", " ", "l", "o", "g", "o", ",", " ", "t",
          "h", "e", " ", "L", "O", "G", "O", " ", "m", "a", "r", "k", ":",
          " ", "l", "o", "g", "o", ",", " ", "L", "o", "g", "o", " ", "a",
          "n", "d", " ", "l", "o", "g", "o", " ", "f", "i", "l", "e", "s",
          ".">>],
       [tag |-> "p", text |-> <<"U+0130">> \o <<"s", "t", "a", "n", "b", "u",
         "l", " ", "o", "f", "f", "i", "c", "e">>] >>

\* the pages: up to MaxElements elements in any order
Pages == UNION {[1..n -> DOMAIN Elements] : n \in 0..MaxElements}

\* the elements of page h
PageElements(h) == [k \in 1..Len(h) |-> Elements[h[k]]]

\* the ids the accessors are called with: the ids of the taxonomy and ids
\* outside it
SectionIds ==
    {SECTION_NAMES[k].id : k \in DOMAIN SECTION_NAMES}
    \cup {<<"7">>, <<"0">>, <<"4", ".", "1">>, <<>>}
SubsectionIds ==
    {<<"1", ".", "1">>, <<"2", ".", "9">>, <<"2", ".", "1", "0">>, <<"4",
      ".", "1">>, <<"6", ".", "5">>,
     <<"3", ".", "9", "9">>, <<"7", ".", "1">>, <<"4">>, <<"4", ".", "1", " ">>}

\* the queries searchBrandBible is called with
Queries ==
    {<<"l", "o", "g", "o">>, <<"L", "o", "g", "o", "s">>, <<"b", "r", "a",
      "n", "d", " ", "v", "o", "i", "c", "e">>, <<"l", "o", "g", "o", " ",
      "l", "o", "g", "o">>, <<"x", "y", "z">>,
     <<>>, <<"a", "b">>, <<" ", "a", " ", "t", "o", " ">>, <<"U+0130", "s">>}

\* ---------------------------------------------------------------- actions
\* The accessors only read the snapshot, so an answer does not depend on the
\* calls before it: each behaviour makes one call.

\* parseBrandBible on the fetched page: the flattened text and its sections
ParsePage ==
    /\ ~brandBible.parsed
    /\ LET rawContent == extractTextContent(PageElements(html))
       IN  brandBible' = [parsed |-> TRUE, rawContent |-> rawContent,
                          sections |-> parseSections(rawContent)]
    /\ UNCHANGED <<html, reply>>
    /\ UNCHANGED cacheVars

\* getSection(sectionId) served the snapshot
GetSection(sectionId) ==
    /\ brandBible.parsed /\ reply = NoReply
    /\ reply' = [op |-> "getSection", arg |-> sectionId,
                 result |-> getSection(brandBible.sections, sectionId)]
    /\ UNCHANGED <<html, brandBible>>
    /\ UNCHANGED cacheVars

\* getSubsection(subsectionId) served the snapshot
GetSubsection(subsectionId) ==
    /\ brandBible.parsed /\ reply = NoReply
    /\ reply' = [op |-> "getSubsection", arg |-> subsectionId,
                 result |-> getSubsection(brandBible.sections, subsectionId)]
    /\ UNCHANGED <<html, brandBible>>
    /\ UNCHANGED cacheVars

\* searchBrandBible(query) served the snapshot
Search(query) ==
    /\ brandBible.parsed /\ reply = NoReply
    /\ reply' = [op |-> "search", arg |-> query,
                 result |-> searchBrandBible(brandBible.sections, query)]
    /\ UNCHANGED <<html, brandBible>>
    /\ UNCHANGED cacheVars

\* the sodax_get_section tool, called with an id its schema accepts
ToolGetSection(section_id) ==
    /\ brandBible.parsed /\ reply = NoReply
    /\ GetSectionInputSchema(section_id)
    /\ reply' = [op |-> "sodax_get_section", arg |-> section_id,
                 result |-> sodax_get_section(brandBible.sections, section_id)]
    /\ UNCHANGED <<html, brandBible>>
    /\ UNCHANGED cacheVars

\* the sodax_get_subsection tool, called with an id its schema accepts
ToolGetSubsection(subsection_id) ==
    /\ brandBible.parsed /\ reply = NoReply
    /\ GetSubsectionInputSchema(subsection_id)
    /\ reply' = [op |-> "sodax_get_subsection", arg |-> subsection_id,
                 result |-> sodax_get_subsection(brandBible.sections,
                                                 subsection_id)]
    /\ UNCHANGED <<html, brandBible>>
    /\ UNCHANGED cacheVars

\* a page has been fetched; the cache plays no part
InitText ==
    /\ InitCache
    /\ html \in Pages
    /\ brandBible = NoData
    /\ reply = NoReply

NextText ==
    \/ ParsePage
    \/ \E sectionId \in SectionIds : GetSection(sectionId)
    \/ \E subsectionId \in SubsectionIds : GetSubsection(subsectionId)
    \/ \E query \in Queries : Search(query)
    \/ \E section_id \in SectionIds : ToolGetSection(section_id)
    \/ \E subsection_id \in SubsectionIds : ToolGetSubsection(subsection_id)

SpecText == InitText /\ [][NextText]_vars

\* ------------------------------------------------ properties of the text

\* the snapshot as parseBrandBible has just returned it
Built == brandBible.parsed /\ reply = NoReply

\* the sections and the subsections of the snapshot
SectionAt(s) == brandBible.sections[s]
SubsectionsAt(s) == brandBible.sections[s].subsections

\* the position of subsection id subId in the taxonomy table, 0 if it has none
TaxonomyIndex(subId) ==
    IF \E n \in DOMAIN SUBSECTION_NAMES : SUBSECTION_NAMES[n].id = subId
    THEN CHOOSE n \in DOMAIN SUBSECTION_NAMES : SUBSECTION_NAMES[n].id = subId
    ELSE 0

\* the entries of the taxonomy table whose id is section id s and a dot and
\* a number
TaxonomyOf(s) ==
    {n \in DOMAIN SUBSECTION_NAMES :
        LET id == SUBSECTION_NAMES[n].id
        IN  Len(id) > Len(s) + 1 /\ SubSeq(id, 1, Len(s) + 1) = s \o <<".">>}

ValidSectionIds == {<<"1">>, <<"2">>, <<"3">>, <<"4">>, <<"5">>, <<"6">>}

\* C11: for every valid section id s and every page, getSection(s) returns
\* the section whose id is s, and its subsections are the taxonomy entries
\* prefixed "s.", each once, with the table's titles, in the table's order.
C11_SectionsFollowTaxonomy ==
    (reply.op = "getSection" /\ reply.arg \in ValidSectionIds) =>
        LET subs == reply.result.subsections
        IN  /\ reply.result.id = reply.arg
            /\ \A k \in DOMAIN subs : TaxonomyIndex(subs[k].id) \in TaxonomyOf(reply.arg)
            /\ \A n \in TaxonomyOf(reply.arg) :
                  Cardinality({k \in DOMAIN subs :
                                  /\ subs[k].id = SUBSECTION_NAMES[n].id
                                  /\ subs[k].title = SUBSECTION_NAMES[n].name}) = 1
            /\ Len(subs) = Cardinality(TaxonomyOf(reply.arg))
            /\ \A k1, k2 \in DOMAIN subs :
                  k1 < k2 => TaxonomyIndex(subs[k1].id) < TaxonomyIndex(subs[k2].id)

\* section 2 of a page whose headings stand in the wrong order: 2.10 is its
\* tenth subsection, after 2.9
C11_Witness ==
    /\ reply.op = "getSection" /\ reply.arg = <<"2">>
    /\ html = <<2, 1>>
    /\ Len(reply.result.subsections) = 10
    /\ reply.result.subsections[9].id = <<"2", ".", "9">>
    /\ reply.result.subsections[10].id = <<"2", ".", "1", "0">>

\* the heading of a section, or of a subsection, is found in the flattened text
SectionFound(s) ==
    Match(brandBible.rawContent,
          Interpolated(SectionAt(s).id) \o escapeRegex(<<".">>),
          escapeRegex(SectionAt(s).title), "numbered heading").matched
SubsectionFound(s, k) ==
    Match(brandBible.rawContent, Interpolated(SubsectionsAt(s)[k].id),
          escapeRegex(SubsectionsAt(s)[k].title), "number").matched

\* C12: in every snapshot the content of a section is at most 2000 code
\* units long and the content of a subsection at most 1500, matched or not.
C12_ContentWithinLimits ==
    brandBible.parsed =>
        \A s \in DOMAIN brandBible.sections :
            /\ Len(SectionAt(s).content) <= SectionContentLimit
            /\ \A k \in DOMAIN SubsectionsAt(s) :
                  Len(SubsectionsAt(s)[k].content) <= SubsectionContentLimit

\* a subsection body that was cut at its limit: the text under its heading
\* is longer than both limits
C12_Witness ==
    /\ brandBible.parsed
    /\ Len(brandBible.rawContent) > SectionContentLimit
    /\ \E s \in DOMAIN brandBible.sections :
          \E k \in DOMAIN SubsectionsAt(s) :
              /\ SubsectionFound(s, k)
              /\ Len(SubsectionsAt(s)[k].content) = SubsectionContentLimit

\* C13, as claimed: every section and every subsection of every snapshot has
\* a non-empty content, also when its heading is followed at once by the
\* next numbered heading or by the end of the text.
C13_Original ==
    brandBible.parsed =>
        \A s \in DOMAIN brandBible.sections :
            /\ SectionAt(s).content # <<>>
            /\ \A k \in DOMAIN SubsectionsAt(s) :
                  SubsectionsAt(s)[k].content # <<>>

\* C14: a subsection no heading is found for has the placeholder that names
\* its title as content; a section no heading is found for has the canned
\* description of its id, one of six.
C14_FallbackContent ==
    Built =>
        \A s \in DOMAIN brandBible.sections :
            /\ ~SectionFound(s) =>
                  /\ Cardinality({d \in DOMAIN descriptions :
                                     descriptions[d].id = SectionAt(s).id}) = 1
                  /\ \E d \in DOMAIN descriptions :
                        /\ descriptions[d].id = SectionAt(s).id
                        /\ descriptions[d].text = SectionAt(s).content
            /\ \A k \in DOMAIN SubsectionsAt(s) :
                  ~SubsectionFound(s, k) =>
                      SubsectionsAt(s)[k].content =
                          <<"C", "o", "n", "t", "e", "n", "t", " ", "f", "o",
                            "r", " ">> \o SubsectionsAt(s)[k].title \o
                          <<".", " ", "P", "l", "e", "a", "s", "e", " ", "r",
                            "e", "f", "e", "r", " ", "t", "o", " ", "t", "h",
                            "e", " ", "f", "u", "l", "l", " ", "B", "r", "a",
                            "n", "d", " ", "B", "i", "b", "l", "e", " ", "f",
                            "o", "r", " ", "d", "e", "t", "a", "i", "l", "s",
                            ".">>

\* a page with the heading of 4.1 and no other: 4.1 has the text under its
\* heading, 4.2 the placeholder and section 4 its description
C14_Witness ==
    /\ Built /\ html = <<2, 4>>
    /\ SubsectionFound(4, 1) /\ ~SubsectionFound(4, 2) /\ ~SectionFound(4)
    /\ SubsectionsAt(4)[1].content = Elements[4].text
    /\ Len(descriptions) = 6
    /\ SectionAt(4).content = descriptions[4].text

\* ------------------------------------------------ properties of the search

\* the blocks of the snapshot: its sections and their subsections, with
\* their place in the taxonomy (n is 0 for a section)
SnapshotBlocks ==
    UNION {
      { [s |-> s, n |-> 0, sectionId |-> SectionAt(s).id,
         subsectionId |-> undefined,
         title |-> SectionAt(s).title, content |-> SectionAt(s).content] }
      \cup
      { [s |-> s, n |-> TaxonomyIndex(SubsectionsAt(s)[k].id),
         sectionId |-> SectionAt(s).id,
         subsectionId |-> SubsectionsAt(s)[k].id,
         title |-> SubsectionsAt(s)[k].title,
         content |-> SubsectionsAt(s)[k].content] : k \in DOMAIN SubsectionsAt(s) }
      : s \in DOMAIN brandBible.sections }

\* the lower-cased "title content" of a block
BlockText(b) == toLowerCase(b.title \o <<" ">> \o b.content)

\* a is a substring of b
IsSubstring(a, b) ==
    \E i \in 0..(Len(b) - Len(a)) : SubSeq(b, i + 1, i + Len(a)) = a

\* the positions at which the non-empty term t occurs in text
Occurrences(text, t) ==
    {i \in 1..(Len(text) - Len(t) + 1) :
        text[i] = t[1] /\ SubSeq(text, i, i + Len(t) - 1) = t}

\* the number of occurrences of t in text that do not overlap
OccurrenceCount(text, t) ==
    LET occ == Occurrences(text, t)
        Apart(S) == \A i, j \in S : i < j => j - i >= Len(t)
    IN  Greatest({Cardinality(S) : S \in {S \in SUBSET occ : Apart(S)}})

\* the sum of the first n numbers of a sequence
RECURSIVE SumTo(_, _)
SumTo(numbers, n) == IF n = 0 THEN 0 ELSE numbers[n] + SumTo(numbers, n - 1)

\* the surviving terms of the query searched for
ReplyTerms == QueryTerms(reply.arg)

\* C15, as claimed: a term that occurs k >= 1 times in the lower-cased
\* content contributes 10 + min(k - 1, 5), exactly 10 when it occurs once, and
\* a term that does not occur contributes 0.
C15_Original ==
    reply.op = "search" =>
        \A b \in SnapshotBlocks : \A n \in DOMAIN ReplyTerms :
            LET text == BlockText(b)
                k == OccurrenceCount(text, ReplyTerms[n])
            IN  TermContribution(text, ReplyTerms[n]) =
                    IF k = 0 THEN 0
                    ELSE 10 + (IF k - 1 < 5 THEN k - 1 ELSE 5)

\* C15, amended: a term that occurs k >= 1 times (occurrences that do not
\* overlap) contributes 10 + min(k, 5): 11 when it occurs once, never more
\* than 15; a term that does not occur contributes 0.
C15_TermContribution ==
    reply.op = "search" =>
        LET terms == ReplyTerms
        IN  \A b \in SnapshotBlocks :
                LET text == BlockText(b)
                IN  \A n \in DOMAIN terms :
                        LET k == OccurrenceCount(text, terms[n])
                            c == TermContribution(text, terms[n])
                        IN  /\ c = IF k = 0 THEN 0
                                   ELSE 10 + (IF k < 5 THEN k ELSE 5)
                            /\ c <= 15
                            /\ k = 1 => c = 11

\* a search for "logo": it occurs once in one block, which contributes 11,
\* and more than five times in another
C15_Witness ==
    /\ reply.op = "search" /\ reply.arg = <<"l", "o", "g", "o">>
    /\ \E b \in SnapshotBlocks :
          /\ OccurrenceCount(BlockText(b), <<"l", "o", "g", "o">>) = 1
          /\ TermContribution(BlockText(b), <<"l", "o", "g", "o">>) = 11
          /\ \E r \in DOMAIN reply.result :
                /\ reply.result[r].subsectionId = b.subsectionId
                /\ reply.result[r].relevance = 16

\* the keywords a block is boosted for: some term is a substring of the
\* keyword or the keyword a substring of some term, and the block has the
\* keyword
Boosted(text, terms) ==
    {w \in DOMAIN brandKeywords :
        /\ \E n \in DOMAIN terms :
              \/ IsSubstring(terms[n], brandKeywords[w])
              \/ IsSubstring(brandKeywords[w], terms[n])
        /\ IsSubstring(brandKeywords[w], text)}

\* C16: every keyword of the brand vocabulary adds 5, once, exactly when a
\* term is a substring of it or it is a substring of a term, and the content
\* has it; the score is the sum of the terms' and the keywords' parts, an
\* integer >= 0.
C16_KeywordBoost ==
    reply.op = "search" =>
        LET terms == ReplyTerms
        IN  \A b \in SnapshotBlocks :
                LET text == BlockText(b)
                    parts == [n \in DOMAIN terms |->
                                 TermContribution(text, terms[n])]
                    boosted == Boosted(text, terms)
                    score == calculateRelevance(
                                 b.title \o <<" ">> \o b.content, terms)
                IN  /\ score = SumTo(parts, Len(parts)) + 5 * Cardinality(boosted)
                    /\ score \in Nat
                    /\ \A w \in DOMAIN brandKeywords :
                          KeywordContribution(text, terms, brandKeywords[w]) =
                              IF w \in boosted THEN 5 ELSE 0

\* a search for "Logos": no block has the term, and 4.1 is found for the
\* keyword "logo" alone, with score 5
C16_Witness ==
    /\ reply.op = "search" /\ reply.arg = <<"L", "o", "g", "o", "s">>
    /\ \E r \in DOMAIN reply.result :
          /\ reply.result[r].subsectionId = <<"4", ".", "1">>
          /\ reply.result[r].relevance = 5
          /\ ~IsSubstring(<<"l", "o", "g", "o", "s">>,
                          toLowerCase(reply.result[r].subsectionTitle \o <<" ">>
                                      \o reply.result[r].content))

\* result r is the block b
IsBlock(r, b) == r.sectionId = b.sectionId /\ r.subsectionId = b.subsectionId

\* block a is met before block b: sections in taxonomy order, a section
\* before its subsections, subsections in taxonomy order
MetBefore(a, b) == a.s < b.s \/ (a.s = b.s /\ a.n < b.n)

\* C17: search returns exactly the blocks whose score over "title content"
\* is > 0, each once and with its score, by descending score, and blocks of
\* equal score in the order they are met.
C17_RankedResults ==
    reply.op = "search" =>
        LET rs == reply.result
            terms == ReplyTerms
            blocks == SnapshotBlocks
            score == [b \in blocks |->
                         calculateRelevance(b.title \o <<" ">> \o b.content, terms)]
            blockOf == [r \in DOMAIN rs |->
                           CHOOSE b \in blocks : IsBlock(rs[r], b)]
        IN  /\ \A r \in DOMAIN rs : \E b \in blocks : IsBlock(rs[r], b)
            /\ \A b \in blocks :
                  LET at == {r \in DOMAIN rs : IsBlock(rs[r], b)}
                  IN  IF score[b] > 0
                      THEN /\ Cardinality(at) = 1
                           /\ \A r \in at : /\ rs[r].relevance = score[b]
                                            /\ rs[r].content = b.content
                      ELSE at = {}
            /\ \A r1, r2 \in DOMAIN rs :
                  r1 < r2 =>
                      \/ rs[r1].relevance > rs[r2].relevance
                      \/ /\ rs[r1].relevance = rs[r2].relevance
                         /\ MetBefore(blockOf[r1], blockOf[r2])

\* a search whose best result is not the first block met, and which has
\* results of equal score
C17_Witness ==
    /\ reply.op = "search" /\ Len(reply.result) >= 3
    /\ reply.result[1].subsectionId = <<"3", ".", "1">>
    /\ reply.result[2].relevance = reply.result[3].relevance
    /\ reply.result[1].relevance > reply.result[2].relevance
    /\ Len(reply.result) < Cardinality(SnapshotBlocks)

\* C18: search("") and every query whose terms (the query is lower-cased
\* and split at white space) are all at most 2 code units long return no
\* results, whatever the snapshot.
C18_ShortTermsFindNothing ==
    (/\ reply.op = "search"
     /\ \A n \in DOMAIN SplitWhiteSpace(toLowerCase(reply.arg)) :
           Len(SplitWhiteSpace(toLowerCase(reply.arg))[n]) <= 2)
    => reply.result = <<>>

\* a search for " a to " on a snapshot that has "to" in it
C18_Witness ==
    /\ reply.op = "search" /\ reply.arg = <<" ", "a", " ", "t", "o", " ">>
    /\ \E b \in SnapshotBlocks : IsSubstring(<<"t", "o">>, BlockText(b))
    /\ reply.result = <<>>

\* C19: search("logo") has a result of section 4 or subsection 4.1, ranked
\* above every block that has neither the term nor the keyword.
C19_LogoFindsVisualIdentity ==
    (reply.op = "search" /\ reply.arg = <<"l", "o", "g", "o">>) =>
        \E r \in DOMAIN reply.result :
            /\ \/ reply.result[r].sectionId = <<"4">>
               \/ reply.result[r].subsectionId = <<"4", ".", "1">>
            /\ \A b \in SnapshotBlocks :
                  ~IsSubstring(<<"l", "o", "g", "o">>, BlockText(b)) =>
                      \A q \in DOMAIN reply.result :
                          IsBlock(reply.result[q], b) => r < q

\* a search for "logo" on a page without a word of it: 4.1 is the first
\* result
C19_Witness ==
    /\ reply.op = "search" /\ reply.arg = <<"l", "o", "g", "o">>
    /\ html = <<>>
    /\ reply.result[1].subsectionId = <<"4", ".", "1">>
    /\ reply.result[1].sectionId = <<"4">>

\* the ids of the taxonomy
TaxonomySubsectionIds == {SUBSECTION_NAMES[n].id : n \in DOMAIN SUBSECTION_NAMES}

\* C20: for an id outside the taxonomy getSection and getSubsection return
\* null, and the tool layer turns null into a response that names the valid
\* ids: sections 1-6, and every subsection id of the taxonomy.
C20_NotFoundIsAValue ==
    /\ (reply.op = "getSection" /\ reply.arg \notin ValidSectionIds) =>
          /\ reply.result = NotFound
          /\ LET response == sodax_get_section(brandBible.sections, reply.arg)
             IN  ~response.found /\ IsSubstring(<<"V", "a", "l", "i", "d",
               " ", "s", "e", "c", "t", "i", "o", "n", "s", " ", "a", "r",
               "e", " ", "1", "-", "6">>, response.text)
    /\ (reply.op = "getSubsection" /\ reply.arg \notin TaxonomySubsectionIds) =>
          reply.result = NotFound
    /\ (reply.op = "sodax_get_subsection"
        /\ reply.arg \notin TaxonomySubsectionIds) =>
          /\ ~reply.result.found
          /\ IsSubstring(reply.arg, reply.result.text)
          /\ \A id \in TaxonomySubsectionIds :
                IsSubstring(<<" ">> \o id, reply.result.text)

\* the subsection tool asked for 3.99, an id its schema accepts and the
\* taxonomy does not have
C20_Witness ==
    /\ reply.op = "sodax_get_subsection" /\ reply.arg = <<"3", ".", "9", "9">>
    /\ ~reply.result.found
    /\ Len(reply.result.text) > Len(SUBSECTION_NAMES)

\* the text as extractTextContent has it before it is cleaned up
RawText == Concat([k \in 1..Len(html) |-> ElementText(PageElements(html)[k])])

\* t has three newline characters in a row
HasNewlineRun(t) ==
    \E i \in 1..(Len(t) - 2) : t[i] = "\n" /\ t[i + 1] = "\n" /\ t[i + 2] = "\n"

\* C25: the flattened text of every page has no run of three or more
\* newline characters and no white space at either end, and the clean-up
\* step applied to it again leaves it as it is.
C25_NormalizedText ==
    (brandBible.parsed /\ reply = NoReply) =>
        LET t == brandBible.rawContent
        IN  /\ ~HasNewlineRun(t)
            /\ t # <<>> => (t[1] \notin WhiteSpace /\ t[Len(t)] \notin WhiteSpace)
            /\ trim(CollapseNewlines(t)) = t

\* a page of two headings: the text starts with newlines and has three in a
\* row between the headings before it is cleaned up
C25_Witness ==
    /\ brandBible.parsed
    /\ HasNewlineRun(RawText)
    /\ RawText[1] \in WhiteSpace /\ RawText[Len(RawText)] \in WhiteSpace
    /\ Len(brandBible.rawContent) < Len(RawText)
    /\ brandBible.rawContent # <<>>

\* the block has the non-empty string t in its lower-cased "title content"
Has(text, t) == Occurrences(text, t) # {}

\* the blocks a search returns
Returned == {b \in SnapshotBlocks :
                \E r \in DOMAIN reply.result : IsBlock(reply.result[r], b)}

\* C30, as claimed: every result of a search has at least one of the
\* surviving terms in its lower-cased "title content".
C30_Original ==
    reply.op = "search" =>
        LET terms == ReplyTerms
        IN  \A b \in Returned :
                \E n \in DOMAIN terms : Has(BlockText(b), terms[n])

\* C30, amended: a block is returned exactly when its lower-cased "title
\* content" has one of the surviving terms, or has a brand keyword that is a
\* substring of a term or has a term as a substring; a block returned for
\* the keywords alone scores 5 for each of them.
C30_ResultsHaveTermOrKeyword ==
    reply.op = "search" =>
        LET terms == ReplyTerms
            related == {w \in DOMAIN brandKeywords :
                           \E n \in DOMAIN terms :
                              \/ IsSubstring(terms[n], brandKeywords[w])
                              \/ IsSubstring(brandKeywords[w], terms[n])}
            returned == Returned
        IN  \A b \in SnapshotBlocks :
                LET text == BlockText(b)
                    hasTerm == \E n \in DOMAIN terms : Has(text, terms[n])
                    boosts == {w \in related : Has(text, brandKeywords[w])}
                IN  /\ b \in returned <=> (hasTerm \/ boosts # {})
                    /\ (b \in returned /\ ~hasTerm) =>
                          \A r \in DOMAIN reply.result :
                              IsBlock(reply.result[r], b) =>
                                  reply.result[r].relevance =
                                      5 * Cardinality(boosts)

\* a search one of whose results has none of the terms: it is found for a
\* keyword that is part of a term
C30_Witness ==
    /\ reply.op = "search"
    /\ \E b \in Returned :
          /\ \A n \in DOMAIN ReplyTerms : ~Has(BlockText(b), ReplyTerms[n])
          /\ \E w \in DOMAIN brandKeywords :
                /\ Has(BlockText(b), brandKeywords[w])
                /\ \E n \in DOMAIN ReplyTerms :
                      IsSubstring(brandKeywords[w], ReplyTerms[n])

\* C23, on the parsed snapshot: getSection, getSubsection, searchBrandBible
\* (which sorts the array of results it has built) and the tools leave the
\* flattened text and the sections, their order and their content, as
\* parseBrandBible built them.
C23_AccessorsLeaveSnapshot ==
    [][brandBible.parsed => brandBible' = brandBible]_vars

TypeOK ==
    /\ clock \in Nat
    /\ cachedData.id \in 0..fetchCount
    /\ \A p \in Callers : calls[p].pc \in {"idle", "await"}
====
